---- MODULE Spec2Model ----
(***************************************************************************)
(* Verification model of the Google access layer of the Obsidian calendar  *)
(* integration plugin: the retry helper (services/base-service.ts), the    *)
(* authenticated REST client (api/google-calendar-api.ts), the caching     *)
(* facades (services/google-calendar-facade.ts, google-tasks-facade.ts)    *)
(* and the loopback OAuth listener (auth/oauth-server.ts).                 *)
(*                                                                         *)
(* Each component has its own specification over the shared variables:     *)
(*   SpecRetry   one withRetry(fn, config) invocation                      *)
(*   SpecApi     concurrent operations of one GoogleCalendarAPI instance   *)
(*   SpecFacade  fetches and mutations on one caching facade, with a clock *)
(*   SpecOAuth   authorization flows started on one OAuthServer            *)
(*   SpecProvider operations called on one GoogleCalendarProvider          *)
(*   SpecLayers  the provider or a facade, for what both layers offer      *)
(*   SpecFacadeCall  one facade operation around its withRetry call        *)
(*   SpecTasks   one getTasksForDate, getTasksForDateRange or getTasks     *)
(*   SpecService initialize() and dispose() calls on one BaseService       *)
(*   SpecRetryLive  SpecRetry with weak fairness of its steps              *)
(*   SpecOAuthLive  SpecOAuth with weak fairness of its steps              *)
(*   SpecBody    the request body of one updateTask or completeTask        *)
(*   SpecAuth    actions reduced by the auth slice of the store            *)
(*   SpecSlice   actions reduced by the calendar or the tasks slice        *)
(*   SpecContainer  register, get and dispose on one ServiceContainer      *)
(*   SpecThunks  thunks of one slice, from pending to settled              *)
(* The components that a specification does not exercise stay in their     *)
(* initial state.                                                          *)
(***************************************************************************)
EXTENDS Integers, Sequences, FiniteSets, TLC

VARIABLES
    \* ---- withRetry (base-service.ts 174-221)
    rGiven,      \* keys present in the caller's RetryConfig
    rConfig,     \* finalConfig = { ...DEFAULT_RETRY_CONFIG, ...config }
    rPc,         \* "running" | "sleeping" | "resolved" | "rejected"
    rAttempt,    \* let attempt
    rLastError,  \* let lastError
    rFnLog,      \* what each invocation of fn did, in order
    rSleeps,     \* the delays handed to setTimeout, in order
    rThrown,     \* the error withRetry rejected with
    \* ---- GoogleCalendarAPI (google-calendar-api.ts)
    credentials, \* this.credentials, shared with the plugin and the provider
    settings,    \* the plugin settings written by onTokensUpdated
    calls,       \* the operations started on the client, one record each
    tokenPosts,  \* the POSTs sent to the token endpoint by refreshAccessToken
    tokensUpdated, \* the arguments onTokensUpdated was called with, in order
    \* ---- GoogleCalendarFacade / GoogleTasksFacade
    fKind,       \* which facade this is: "events" | "tasks"
    fReady,      \* BaseService._isReady
    fNow,        \* Date.now()
    fTicks,      \* how often the clock has advanced
    fCache,      \* this.cache: a set of [key, data, timestamp], one per key
    fServer,     \* version of the data held by Google
    fOps,        \* the pending and the last settled operations of the facade
    fStarted,    \* how many operations have been called on the facade
    fFirst,      \* per key: the last fetch that missed and stored (history)
    fCleared,    \* entries removed by a mutation and not fetched since (history)
    \* ---- OAuthServer (oauth-server.ts)
    oServer,     \* this.server: 0 for null, else the flow whose listener it is
    oPort,       \* who holds port 8080: 0 for nobody, a flow, or OtherProcess
    oFlows,      \* the startOAuthFlow invocations, one record each
    oUncaught,   \* errors thrown out of the listeners' 'error' handler
    \* ---- GoogleCalendarProvider (providers/GoogleCalendarProvider.ts)
    pCred,       \* the credentials of the provider's GoogleCalendarAPI
    pNow,        \* Date.now()
    pTicks,      \* how often the clock has advanced by itself
    pEventCache, \* this.eventCache with this.lastEventRefresh
    pTaskCache,  \* this.taskCache with this.lastTaskRefresh
    pOp,         \* the operation in progress, or the last one
    pCalled,     \* how many operations have been called on the provider
    \* ---- one operation of a facade around its withRetry call
    cFacade,     \* "events" | "tasks"
    cOperation,  \* the operation called on the facade
    cResult,     \* Pending, Returned_, or the ServiceError it threw
    \* ---- getTasksForDate / getTasksForDateRange (google-calendar-api.ts)
    tZone,       \* the offset of the local time zone from UTC, in ticks
    tKind,       \* "getTasksForDate" | "getTasksForDateRange"
    tStart,      \* startDate (the date itself for getTasksForDate)
    tEnd,        \* endDate
    tLists,      \* the task lists Google holds, with their tasks
    tPc,         \* "called" | "fanned" | "done"
    tSlots,      \* per task list: what its callback has come to
    tResult,     \* what the operation resolved with
    \* ---- BaseService lifecycle of a facade (base-service.ts 28-99)
    sApi,          \* whether the facade was constructed with an api
    sReady,        \* this._isReady
    sInitializing, \* this._isInitializing
    sRuns,         \* how often onInitialize has run
    sCalls,        \* the initialize() calls, one record each
    sDisposals,    \* the dispose() calls: how many called, how many awaiting
    \* ---- one updateTask / completeTask call, up to the body it sends
    uLayer,      \* "facade" (GoogleTasksFacade) | "provider" (GoogleCalendarProvider)
    uOperation,  \* "updateTask" | "completeTask"
    uUpdates,    \* the updates / options argument of updateTask
    uNow,        \* Date.now() when the operation is called
    uSent,       \* the bodies handed to api.updateTask, in order
    \* ---- the auth slice of the redux store (redux/auth-slice.ts)
    aAuth,       \* the AuthState
    aLast,       \* the type of the action reduced last
    \* ---- the calendar slice and the tasks slice of the redux store
    nSlice,      \* which slice: "calendar" or "tasks"
    nState,      \* its state: the entity map, the id list, loading, error, ...
    \* ---- the ServiceContainer (services/service-container.ts)
    kFactories,  \* the names a factory is registered for
    kServices,   \* the instance stored for each name, 0 for none
    kCreated,    \* history: how many instances the factories have made
    kGets,       \* the calls of get(name)
    kReset,      \* history: the names disposed or cleared so far
    kDisposing,  \* the calls of dispose(name) waiting for service.dispose()
    \* ---- the thunks of one slice of the store, from pending to settled
    hSlice,      \* which slice: "calendar", "tasks" or "auth"
    hState,      \* the state of that slice
    hPending,    \* for each thunk of the slice, how many are pending
    hDispatched, \* how many thunks have been dispatched
    \* ---- the component a behaviour exercises
    layer

retryVars == <<rGiven, rConfig, rPc, rAttempt, rLastError, rFnLog, rSleeps, rThrown>>

apiVars == <<credentials, settings, calls, tokenPosts, tokensUpdated>>

facadeVars == <<fKind, fReady, fNow, fTicks, fCache, fServer, fOps, fStarted, fFirst, fCleared>>

oauthVars == <<oServer, oPort, oFlows, oUncaught>>

providerVars == <<pCred, pNow, pTicks, pEventCache, pTaskCache, pOp, pCalled>>

callVars == <<cFacade, cOperation, cResult>>

tasksVars == <<tZone, tKind, tStart, tEnd, tLists, tPc, tSlots, tResult>>

serviceVars == <<sApi, sReady, sInitializing, sRuns, sCalls, sDisposals>>

bodyVars == <<uLayer, uOperation, uUpdates, uNow, uSent>>

authVars == <<aAuth, aLast>>

sliceVars == <<nSlice, nState>>

containerVars == <<kFactories, kServices, kCreated, kGets, kReset, kDisposing>>

thunkVars == <<hSlice, hState, hPending, hDispatched>>

vars == <<retryVars, apiVars, facadeVars, oauthVars, providerVars, callVars, tasksVars, serviceVars, bodyVars, authVars, sliceVars, containerVars, thunkVars, layer>>

\* what the actions of one component leave alone
notRetry == <<apiVars, facadeVars, oauthVars, providerVars, callVars, tasksVars, serviceVars, bodyVars, authVars, sliceVars, containerVars, thunkVars, layer>>
notApi == <<retryVars, facadeVars, oauthVars, providerVars, callVars, tasksVars, serviceVars, bodyVars, authVars, sliceVars, containerVars, thunkVars, layer>>
notFacade == <<retryVars, apiVars, oauthVars, providerVars, callVars, tasksVars, serviceVars, bodyVars, authVars, sliceVars, containerVars, thunkVars, layer>>
notOAuth == <<retryVars, apiVars, facadeVars, providerVars, callVars, tasksVars, serviceVars, bodyVars, authVars, sliceVars, containerVars, thunkVars, layer>>
notProvider == <<retryVars, apiVars, facadeVars, oauthVars, callVars, tasksVars, serviceVars, bodyVars, authVars, sliceVars, containerVars, thunkVars, layer>>
notThunk == <<retryVars, apiVars, facadeVars, oauthVars, providerVars, callVars, tasksVars, serviceVars, bodyVars, authVars, sliceVars, containerVars, layer>>
notContainer == <<retryVars, apiVars, facadeVars, oauthVars, providerVars, callVars, tasksVars, serviceVars, bodyVars, authVars, sliceVars, thunkVars, layer>>
notSlice == <<retryVars, apiVars, facadeVars, oauthVars, providerVars, callVars, tasksVars, serviceVars, bodyVars, authVars, containerVars, thunkVars, layer>>
notAuth == <<retryVars, apiVars, facadeVars, oauthVars, providerVars, callVars, tasksVars, serviceVars, bodyVars, sliceVars, containerVars, thunkVars, layer>>
notBody == <<retryVars, apiVars, facadeVars, oauthVars, providerVars, callVars, tasksVars, serviceVars, authVars, sliceVars, containerVars, thunkVars, layer>>
notService == <<retryVars, apiVars, facadeVars, oauthVars, providerVars, callVars, tasksVars, bodyVars, authVars, sliceVars, containerVars, thunkVars, layer>>
notTasks == <<retryVars, apiVars, facadeVars, oauthVars, providerVars, callVars, serviceVars, bodyVars, authVars, sliceVars, containerVars, thunkVars, layer>>

(***************************************************************************)
(* Bounds of the model.                                                    *)
(***************************************************************************)
\* explicit maxRetries values range over -1..MaxRetriesCfg (the default adds 3)
MaxRetriesCfg == 2
\* number of operations started on one GoogleCalendarAPI instance
NumApiCalls == 2
\* number of operations called on one facade
MaxFacadeOps == 4
\* number of facade operations that can be pending at once
MaxPending == 2
\* number of times the clock advances
MaxTicks == 2
\* number of startOAuthFlow invocations on one OAuthServer
MaxFlows == 2
\* number of HTTP requests one flow's listener receives
MaxRequests == 2
\* number of operations called on one provider
MaxProviderOps == 3
\* how often the provider's clock advances by the cache TTL
MaxProviderTicks == 1
\* number of initialize() calls on one service
MaxInitCalls == 3
\* number of dispose() calls on one service
MaxDisposals == 1

(***************************************************************************)
(* Error messages.  A message is a sequence of words; String.includes is   *)
(* modelled at word granularity and toLowerCase word by word.              *)
(***************************************************************************)
Messages ==
    { <<"Network", "timeout">>,
      <<"Rate", "limit", "exceeded">>,
      <<"Invalid", "credentials">>,
      <<"Custom", "error">> }

Lower(word) ==
    CASE word = "Network" -> "network"
      [] word = "Request" -> "request"
      [] word = "No"      -> "no"
      [] word = "Rate"    -> "rate"
      [] word = "Invalid" -> "invalid"
      [] word = "Custom"  -> "custom"
      [] OTHER            -> word

ToLowerCase(msg) == [i \in 1..Len(msg) |-> Lower(msg[i])]

Includes(msg, pat) ==
    \E i \in 1..(Len(msg) - Len(pat) + 1) : SubSeq(msg, i, i + Len(pat) - 1) = pat

\* the signatures of DEFAULT_RETRY_CONFIG.isRetryable
RetryableSignatures ==
    { <<"network">>, <<"timeout">>, <<"econnreset">>, <<"enotfound">>,
      <<"rate", "limit">>, <<"429">>, <<"500">>, <<"502">>, <<"503">>, <<"504">> }

DefaultIsRetryable(msg) ==
    \E sig \in RetryableSignatures : Includes(ToLowerCase(msg), sig)

\* the predicate of the test suite: (err) => err.message.includes('Custom')
CustomIsRetryable(msg) == Includes(msg, <<"Custom">>)

IsRetryable(cfg, msg) ==
    IF cfg.isRetryable = "default" THEN DefaultIsRetryable(msg) ELSE CustomIsRetryable(msg)

(***************************************************************************)
(* RetryConfig and its defaults.                                           *)
(***************************************************************************)
RetryKeys ==
    {"maxRetries", "initialDelay", "backoffMultiplier", "maxDelay", "useJitter", "isRetryable"}

DEFAULT_RETRY_CONFIG ==
    [ maxRetries        |-> 3,
      initialDelay      |-> 1000,
      backoffMultiplier |-> 2,
      maxDelay          |-> 30000,
      useJitter         |-> TRUE,
      isRetryable       |-> "default" ]

\* the values a caller may give for each key
GivenConfigs ==
    [ maxRetries        : -1..MaxRetriesCfg,
      initialDelay      : {100},
      backoffMultiplier : {10},
      maxDelay          : {5000},
      useJitter         : {FALSE},
      isRetryable       : {"custom"} ]

\* { ...DEFAULT_RETRY_CONFIG, ...config }: a key the caller gave wins
FinalConfig(given, config) ==
    [ maxRetries        |-> IF "maxRetries" \in given
                            THEN config.maxRetries ELSE DEFAULT_RETRY_CONFIG.maxRetries,
      initialDelay      |-> IF "initialDelay" \in given
                            THEN config.initialDelay ELSE DEFAULT_RETRY_CONFIG.initialDelay,
      backoffMultiplier |-> IF "backoffMultiplier" \in given
                            THEN config.backoffMultiplier
                            ELSE DEFAULT_RETRY_CONFIG.backoffMultiplier,
      maxDelay          |-> IF "maxDelay" \in given
                            THEN config.maxDelay ELSE DEFAULT_RETRY_CONFIG.maxDelay,
      useJitter         |-> IF "useJitter" \in given
                            THEN config.useJitter ELSE DEFAULT_RETRY_CONFIG.useJitter,
      isRetryable       |-> IF "isRetryable" \in given
                            THEN config.isRetryable ELSE DEFAULT_RETRY_CONFIG.isRetryable ]

(***************************************************************************)
(* The arithmetic of the backoff.                                          *)
(***************************************************************************)
RECURSIVE Pow(_, _)
Pow(b, e) == IF e <= 0 THEN 1 ELSE b * Pow(b, e - 1)

Min(a, b) == IF a <= b THEN a ELSE b

BaseDelayUncapped(cfg, attempt) ==
    cfg.initialDelay * Pow(cfg.backoffMultiplier, attempt)

\* Math.min(initialDelay * Math.pow(backoffMultiplier, attempt), maxDelay)
BaseDelay(cfg, attempt) ==
    Min(cfg.initialDelay * Pow(cfg.backoffMultiplier, attempt), cfg.maxDelay)

\* Math.random() sampled at 0, 1/2 and just below 1 (in halves: 0, 1, 2)
JitterSamples == {0, 1, 2}

\* useJitter ? baseDelay * (0.5 + Math.random() * 0.5) : baseDelay
JitteredDelay(cfg, attempt, rnd) ==
    IF cfg.useJitter
    THEN (BaseDelay(cfg, attempt) * (2 + rnd)) \div 4
    ELSE BaseDelay(cfg, attempt)

JitterChoices(cfg) == IF cfg.useJitter THEN JitterSamples ELSE {0}

(***************************************************************************)
(* withRetry                                                               *)
(***************************************************************************)
NoError == [msg |-> <<>>, call |-> 0]

\* while (attempt <= finalConfig.maxRetries)
LoopConditionShort(cfg, attempt) == attempt < cfg.maxRetries

LoopCondition(cfg, attempt) == attempt <= cfg.maxRetries

\* the catch block's decision, ignoring the retryability predicate
AfterFailureBreaksEarly(cfg, attempt, msg) ==
    IF attempt >= cfg.maxRetries - 1 THEN "break"
    ELSE IF ~IsRetryable(cfg, msg) THEN "throw"
    ELSE "sleep"

AfterFailureAlwaysRetry(cfg, attempt, msg) ==
    IF attempt >= cfg.maxRetries THEN "break" ELSE "sleep"

\* the catch block's decision: break on the last attempt, rethrow what is not
\* retryable, otherwise sleep and retry
AfterFailure(cfg, attempt, msg) ==
    IF attempt >= cfg.maxRetries THEN "break"
    ELSE IF ~IsRetryable(cfg, msg) THEN "throw"
    ELSE "sleep"

RetryInit ==
    /\ \E given \in SUBSET RetryKeys, config \in GivenConfigs :
          /\ rGiven = given
          /\ rConfig = FinalConfig(given, config)
    /\ rPc = "running"
    /\ rAttempt = 0
    /\ rLastError = NoError
    /\ rFnLog = <<>>
    /\ rSleeps = <<>>
    /\ rThrown = NoError

\* return await fn() with fn resolving
FnResolves ==
    /\ rPc = "running"
    /\ LoopCondition(rConfig, rAttempt)
    /\ rFnLog' = Append(rFnLog, [ok |-> TRUE, msg |-> <<>>])
    /\ rPc' = "resolved"
    /\ UNCHANGED <<rGiven, rConfig, rAttempt, rLastError, rSleeps, rThrown, notRetry>>

\* await fn() with fn rejecting: the catch block
FnRejects(msg) ==
    LET err == [msg |-> msg, call |-> Len(rFnLog) + 1]
        todo == AfterFailure(rConfig, rAttempt, msg)
    IN  /\ rPc = "running"
        /\ LoopCondition(rConfig, rAttempt)
        /\ rFnLog' = Append(rFnLog, [ok |-> FALSE, msg |-> msg])
        /\ rLastError' = err
        /\ IF todo = "sleep"
           THEN /\ \E rnd \in JitterChoices(rConfig) :
                      rSleeps' = Append(rSleeps, JitteredDelay(rConfig, rAttempt, rnd))
                /\ rPc' = "sleeping"
                /\ UNCHANGED rThrown
           ELSE /\ rPc' = "rejected"
                /\ rThrown' = err
                /\ UNCHANGED rSleeps
        /\ UNCHANGED <<rGiven, rConfig, rAttempt, notRetry>>

\* the setTimeout of the backoff fires: attempt++
TimerFires ==
    /\ rPc = "sleeping"
    /\ rAttempt' = rAttempt + 1
    /\ rPc' = "running"
    /\ UNCHANGED <<rGiven, rConfig, rLastError, rFnLog, rSleeps, rThrown, notRetry>>

\* the loop condition fails: throw lastError
LoopExit ==
    /\ rPc = "running"
    /\ ~LoopCondition(rConfig, rAttempt)
    /\ rPc' = "rejected"
    /\ rThrown' = rLastError
    /\ UNCHANGED <<rGiven, rConfig, rAttempt, rLastError, rFnLog, rSleeps, notRetry>>

NextRetry ==
    \/ FnResolves
    \/ \E msg \in Messages : FnRejects(msg)
    \/ TimerFires
    \/ LoopExit


(***************************************************************************)
(* GoogleCalendarAPI: makeRequest, refreshAccessToken and the operations   *)
(* built on one request.  Tokens are numbers, 0 standing for undefined.    *)
(***************************************************************************)
ApiCallIds == 1..NumApiCalls

\* operations whose catch block logs and returns null
FetchKinds == {"getEventsForDate", "getEventsForDateRange", "getTasks"}

\* operations whose catch block logs and rethrows
MutateKinds == {"createEvent", "updateEvent", "deleteEvent",
                "createTask", "updateTask", "deleteTask"}

OpKinds == FetchKinds \cup MutateKinds

\* the (url, method, body) an operation hands to makeRequest
RequestOf(kind) ==
    [ url    |-> CASE kind \in {"getEventsForDate", "getEventsForDateRange", "createEvent"}
                        -> "calendars/primary/events"
                   [] kind \in {"updateEvent", "deleteEvent"}
                        -> "calendars/primary/events/id"
                   [] kind \in {"getTasks", "createTask"}
                        -> "lists/@default/tasks"
                   [] OTHER
                        -> "lists/@default/tasks/id",
      method |-> CASE kind \in FetchKinds -> "GET"
                   [] kind \in {"createEvent", "createTask"} -> "POST"
                   [] kind \in {"updateEvent", "updateTask"} -> "PUT"
                   [] OTHER -> "DELETE",
      body   |-> kind \in {"createEvent", "createTask", "updateEvent", "updateTask"} ]

\* what requestUrl can answer: 200, an error status, or 0 for a failure that
\* carries no status (network)
HttpStatuses == {200, 401, 404, 500, 0}

\* the failures of a refresh at the token endpoint: invalid_grant, or no answer
TokenFailures == {400, 0}

NoTokens == [access_token |-> 0, refresh_token |-> 0]

NoFailure == [msg |-> "", status |-> 0, origin |-> ""]

LocalError(msg) == [msg |-> msg, status |-> 0, origin |-> "local"]

\* the error requestUrl throws for a response of that status
HttpError(status, origin) == [msg |-> "Request failed", status |-> status, origin |-> origin]

IdleCall ==
    [ kind         |-> "",
      pc           |-> "idle",      \* idle | sent | refreshing | resent | done
      sends        |-> <<>>,        \* the requests sent to the API, in order
      answers      |-> <<>>,        \* the status each of them was answered with
      refreshCalls |-> 0,           \* invocations of refreshAccessToken
      tokenAnswer  |-> -1,          \* status of the token endpoint's answer
      granted      |-> NoTokens,    \* the token response its refresh received
      refreshed    |-> FALSE,       \* its refresh resolved
      thrown       |-> NoFailure,   \* what makeRequest threw
      result       |-> "pending" ]  \* pending | value | null | throws

\* !!clientId && !!clientSecret
IsConfigured(cred) == cred.clientId # "" /\ cred.clientSecret # ""

\* the catch block of the operation: fetches return null, mutations rethrow
Caught(kind) == IF kind \in FetchKinds THEN "null" ELSE "throws"

Failed(c, err) == [c EXCEPT !.pc = "done", !.thrown = err, !.result = Caught(c.kind)]

Returned(c) == [c EXCEPT !.pc = "done", !.result = "value"]

\* the bearer token of the re-sent request, read before the refresh
TokenForResendStale(before, after) == before.accessToken

\* the bearer token of the re-sent request: this.credentials.accessToken, read
\* after refreshAccessToken has resolved
TokenForResend(before, after) == after.accessToken

\* the next token the token endpoint hands out
FreshToken == 2 + Len(tokenPosts)

\* the token responses of a refresh: with or without access_token, with or
\* without a rotated refresh_token
TokenResponses == [access_token : {0, FreshToken}, refresh_token : {0, FreshToken}]

ApiInit ==
    /\ \E id \in {"", "client-id"}, secret \in {"", "client-secret"},
          access \in {0, 1}, refresh \in {0, 1} :
          /\ credentials = [clientId |-> id, clientSecret |-> secret,
                            accessToken |-> access, refreshToken |-> refresh]
          /\ settings = [googleAccessToken |-> access, googleRefreshToken |-> refresh]
    /\ calls = [p \in ApiCallIds |-> IdleCall]
    /\ tokenPosts = <<>>
    /\ tokensUpdated = <<>>

\* an operation is called: the credentials check of the operation, then
\* makeRequest up to its first await
StartCall(p, kind) ==
    /\ calls[p].pc = "idle"
    /\ \A q \in 1..(p - 1) : calls[q].pc # "idle"    \* the records are used in order
    /\ LET c == [calls[p] EXCEPT !.kind = kind] IN
       calls' = [calls EXCEPT ![p] =
          IF ~IsConfigured(credentials)
          THEN Failed(c, LocalError("Google Calendar API credentials not configured"))
          ELSE IF credentials.accessToken = 0
          THEN Failed(c, LocalError("No access token available"))
          ELSE [c EXCEPT !.pc = "sent",
                         !.sends = <<[req |-> RequestOf(kind),
                                      token |-> credentials.accessToken]>>]]
    /\ UNCHANGED <<credentials, settings, tokenPosts, tokensUpdated, notApi>>

\* the first request is answered: return, rethrow, or on 401 call
\* refreshAccessToken up to its first await
FirstResponse(p, status) ==
    /\ calls[p].pc = "sent"
    /\ LET c == [calls[p] EXCEPT !.answers = Append(@, status)] IN
       IF status = 200
       THEN /\ calls' = [calls EXCEPT ![p] = Returned(c)]
            /\ UNCHANGED tokenPosts
       ELSE IF status # 401
       THEN /\ calls' = [calls EXCEPT ![p] = Failed(c, HttpError(status, "request"))]
            /\ UNCHANGED tokenPosts
       ELSE IF credentials.refreshToken = 0
       THEN /\ calls' = [calls EXCEPT ![p] =
                   Failed([c EXCEPT !.refreshCalls = @ + 1],
                          LocalError("No refresh token available"))]
            /\ UNCHANGED tokenPosts
       ELSE /\ calls' = [calls EXCEPT ![p] =
                   [c EXCEPT !.refreshCalls = @ + 1, !.pc = "refreshing"]]
            /\ tokenPosts' = Append(tokenPosts,
                   [by |-> p, refresh_token |-> credentials.refreshToken])
    /\ UNCHANGED <<credentials, settings, tokensUpdated, notApi>>

\* the token endpoint answers with a token response: refreshAccessToken stores
\* the access token and notifies, then makeRequest re-sends the request
RefreshSucceeds(p, tokens) ==
    /\ calls[p].pc = "refreshing"
    /\ LET after == IF tokens.access_token # 0
                    THEN [credentials EXCEPT !.accessToken = tokens.access_token]
                    ELSE credentials
       IN  /\ credentials' = after
           /\ calls' = [calls EXCEPT ![p] =
                  [@ EXCEPT !.pc = "resent",
                            !.tokenAnswer = 200,
                            !.granted = tokens,
                            !.refreshed = TRUE,
                            !.sends = Append(@, [req |-> RequestOf(calls[p].kind),
                                                 token |-> TokenForResend(credentials, after)])]]
    /\ IF tokens.access_token # 0
       THEN /\ tokensUpdated' = Append(tokensUpdated, tokens)
            /\ settings' =
                  [googleAccessToken  |-> tokens.access_token,
                   googleRefreshToken |-> IF tokens.refresh_token # 0
                                          THEN tokens.refresh_token
                                          ELSE settings.googleRefreshToken]
       ELSE UNCHANGED <<tokensUpdated, settings>>
    /\ UNCHANGED <<tokenPosts, notApi>>

\* the token request fails, and the failure also forgets the refresh token
RefreshFailsClearingToken(p, status) ==
    /\ calls[p].pc = "refreshing"
    /\ calls' = [calls EXCEPT ![p] =
          Failed([@ EXCEPT !.tokenAnswer = status], HttpError(status, "token"))]
    /\ credentials' = [credentials EXCEPT !.refreshToken = 0]
    /\ UNCHANGED <<settings, tokenPosts, tokensUpdated, notApi>>

\* the token request fails: refreshAccessToken logs and rethrows, and the
\* error leaves makeRequest from inside its catch block
RefreshFails(p, status) ==
    /\ calls[p].pc = "refreshing"
    /\ calls' = [calls EXCEPT ![p] =
          Failed([@ EXCEPT !.tokenAnswer = status], HttpError(status, "token"))]
    /\ UNCHANGED <<credentials, settings, tokenPosts, tokensUpdated, notApi>>

\* the re-sent request is answered: return, or the error leaves makeRequest
ResendResponse(p, status) ==
    /\ calls[p].pc = "resent"
    /\ LET c == [calls[p] EXCEPT !.answers = Append(@, status)] IN
       calls' = [calls EXCEPT ![p] =
          IF status = 200 THEN Returned(c) ELSE Failed(c, HttpError(status, "resend"))]
    /\ UNCHANGED <<credentials, settings, tokenPosts, tokensUpdated, notApi>>

NextApi ==
    \/ \E p \in ApiCallIds, kind \in OpKinds : StartCall(p, kind)
    \/ \E p \in ApiCallIds, status \in HttpStatuses : FirstResponse(p, status)
    \/ \E p \in ApiCallIds, tokens \in TokenResponses : RefreshSucceeds(p, tokens)
    \/ \E p \in ApiCallIds, status \in TokenFailures : RefreshFails(p, status)
    \/ \E p \in ApiCallIds, status \in HttpStatuses : ResendResponse(p, status)

(***************************************************************************)
(* The caching facades.  GoogleCalendarFacade and GoogleTasksFacade differ *)
(* in the cache key, in the API operation a fetch calls and in their       *)
(* mutations; fKind says which of the two a behaviour is about.            *)
(***************************************************************************)
CACHE_TTL == 60000

FacadeOpIds == 1..MaxPending

\* the clock advances by half a TTL or by just over a TTL
TickSteps == {30000, 60001}

\* FetchEventsOptions / FetchTasksOptions; "" stands for a field left out
OptionsOf(kind) ==
    IF kind = "events"
    THEN [startDate : {"d1", "d2"}, endDate : {"d2"}, id : {""}]
    ELSE { [startDate |-> "d1", endDate |-> "d2", id |-> ""],
           [startDate |-> "d1", endDate |-> "",   id |-> ""],
           [startDate |-> "",   endDate |-> "",   id |-> ""] }

Or(value, default) == IF value = "" THEN default ELSE value

\* getCacheKey of the two facades
GetCacheKey(kind, o) ==
    IF kind = "events"
    THEN o.startDate \o "-" \o o.endDate \o "-" \o Or(o.id, "primary")
    ELSE Or(o.startDate, "all") \o "-" \o Or(o.endDate, "all") \o "-" \o Or(o.id, "default")

AllKeys == {GetCacheKey(kind, o) : kind \in {"events"}, o \in OptionsOf("events")}
           \cup {GetCacheKey(kind, o) : kind \in {"tasks"}, o \in OptionsOf("tasks")}

\* the API operation a fetch calls on a miss; fetchTasks without a startDate
\* calls none and takes the empty list
FetchApiOf(kind, o) ==
    IF kind = "events" THEN "getEventsAndTasksForDateRange"
    ELSE IF o.startDate # "" /\ o.endDate # "" THEN "getEventsAndTasksForDateRange"
    ELSE IF o.startDate # "" THEN "getEventsAndTasksForDate"
    ELSE "none"

MutationsOf(kind) ==
    IF kind = "events"
    THEN {"createEvent", "updateEvent", "deleteEvent"}
    ELSE {"createTask", "updateTask", "deleteTask", "completeTask"}

Entry(cache, key) == CHOOSE e \in cache : e.key = key

Cached(cache, key) == \E e \in cache : e.key = key

\* const isExpired = cached.timestamp - Date.now() > this.CACHE_TTL
IsExpiredReversed(now, timestamp) == timestamp - now > CACHE_TTL

\* an entry that expires when its age reaches the TTL
IsExpiredAtTTL(now, timestamp) == now - timestamp >= CACHE_TTL

\* const isExpired = Date.now() - cached.timestamp > this.CACHE_TTL
IsExpired(now, timestamp) == now - timestamp > CACHE_TTL

\* getFromCache: the data of a live entry, or a miss that deletes a stale entry
CacheHit(cache, key, now) ==
    Cached(cache, key) /\ ~IsExpired(now, Entry(cache, key).timestamp)

AfterLookup(cache, key, now) ==
    IF Cached(cache, key) /\ IsExpired(now, Entry(cache, key).timestamp)
    THEN {e \in cache : e.key # key}
    ELSE cache

\* a setCache that keeps the entry a key already has
SetCacheKeepsFirst(cache, key, data, now) ==
    IF Cached(cache, key) THEN cache
    ELSE cache \cup {[key |-> key, data |-> data, timestamp |-> now]}

SetCacheDropsKey(cache, key, data, now) == {e \in cache : e.key # key}

\* setCache: this.cache.set(key, { data, timestamp: Date.now() })
SetCache(cache, key, data, now) ==
    {e \in cache : e.key # key} \cup {[key |-> key, data |-> data, timestamp |-> now]}

\* a clear that drops only the entries that have expired
ClearCacheStaleOnly(cache, now) == {e \in cache : ~IsExpired(now, e.timestamp)}

\* clearCache: this.cache.clear()
ClearCache(cache, now) == {}

\* the list a failed API fetch leaves: result?.events?.items || []
EmptyList == -1

TaskIds == {"t1", "t2"}

EventIds == {"e1"}

\* the task ids handed to the tasks facade
FacadeTaskIds == {"t1"}

\* Date.prototype.toISOString: the string is held by the instant it denotes
\* and by its format, which ends in Z (UTC)
ToISOString(ms) == [format |-> "YYYY-MM-DDTHH:mm:ss.sssZ", instant |-> ms]

\* a timestamp field that is undefined
NoTimestamp == [format |-> "", instant |-> 0]

NoBody == [status |-> "", completed |-> NoTimestamp]

CompleteBodyNeedsAction(now) == [status |-> "needsAction", completed |-> ToISOString(now)]

\* the task object completeTask hands to api.updateTask
CompleteBody(now) == [status |-> "completed", completed |-> ToISOString(now)]

\* the API operation a mutation hands to withRetry
ApiOpOf(kind) == IF kind = "completeTask" THEN "updateTask" ELSE kind

IdleOp ==
    [ type     |-> "",          \* fetch | mutation
      pc       |-> "idle",      \* idle | inflight | done
      name     |-> "",          \* the operation called on the facade
      id       |-> "",          \* completeTask: the task it is about
      body     |-> NoBody,      \* completeTask: the updates handed to updateTask
      key      |-> "",
      hit      |-> FALSE,       \* a fetch served from the cache
      apiCalls |-> 0,           \* API calls a fetch has issued
      result   |-> "pending",   \* pending | value | ServiceError
      data     |-> EmptyList,   \* the list its API call reads, the list it returns
      pairAge  |-> -1,          \* history: time since the fetch before it stored
      firstCalls |-> 0,         \* history: API calls of the fetch before it
      clearedAge |-> -1,        \* history: age of the entry a mutation removed
      restored |-> FALSE ]      \* history: a pending fetch stored the key again

InFlightFor(key) == {q \in FacadeOpIds : fOps[q].type = "fetch" /\ fOps[q].pc = "inflight"
                                          /\ fOps[q].key = key}

NoFirst == [stamp |-> -1, quiet |-> FALSE, calls |-> 0]

WasCleared(key) == \E e \in fCleared : e.key = key

Cleared(key) == CHOOSE e \in fCleared : e.key = key

Disturbed == [k \in AllKeys |-> [fFirst[k] EXCEPT !.quiet = FALSE]]

FacadeInit ==
    /\ fKind \in {"events", "tasks"}
    /\ fReady = FALSE
    /\ fNow = 0
    /\ fTicks = 0
    /\ fCache = {}
    /\ fServer = 0
    /\ fOps = [p \in FacadeOpIds |-> IdleOp]
    /\ fStarted = 0
    /\ fFirst = [k \in AllKeys |-> NoFirst]
    /\ fCleared = {}

\* an operation takes the first record never used, or else the first record
\* whose operation has settled
Unused(p) == fOps[p].pc = "idle"

Settled(p) == fOps[p].pc = "done"

CanStart(p) ==
    /\ fStarted < MaxFacadeOps
    /\ \/ Unused(p) /\ \A q \in 1..(p - 1) : ~Unused(q)
       \/ Settled(p) /\ (\A q \in FacadeOpIds : ~Unused(q))
                     /\ (\A q \in 1..(p - 1) : ~Settled(q))

\* fetchEvents / fetchTasks up to the await of the API call: ensureReady, the
\* cache lookup, and either the cached data, the API call, or (fetchTasks
\* without a startDate) the empty list stored at once
FetchStart(p, o) ==
    LET key  == GetCacheKey(fKind, o)
        api  == FetchApiOf(fKind, o)
        hit  == CacheHit(fCache, key, fNow)
        left == AfterLookup(fCache, key, fNow)
        op   == [IdleOp EXCEPT
                   !.type = "fetch", !.name = api, !.key = key,
                   !.pairAge = IF fFirst[key].quiet THEN fNow - fFirst[key].stamp ELSE -1,
                   !.firstCalls = IF fFirst[key].quiet THEN fFirst[key].calls ELSE 0,
                   !.clearedAge = IF WasCleared(key)
                                  THEN fNow - Cleared(key).timestamp ELSE -1,
                   !.restored = WasCleared(key) /\ Cleared(key).restored]
    IN  /\ CanStart(p)
        /\ fStarted' = fStarted + 1
        /\ fReady' = TRUE
        /\ IF hit
           THEN /\ fOps' = [fOps EXCEPT ![p] =
                      [op EXCEPT !.pc = "done", !.hit = TRUE, !.result = "value",
                                 !.data = Entry(fCache, key).data]]
                /\ fCache' = left
           ELSE IF api # "none"
           THEN /\ fOps' = [fOps EXCEPT ![p] =
                      [op EXCEPT !.pc = "inflight", !.apiCalls = 1, !.data = fServer]]
                /\ fCache' = left
           ELSE /\ fOps' = [fOps EXCEPT ![p] =
                      [op EXCEPT !.pc = "done", !.result = "value", !.data = EmptyList]]
                /\ fCache' = SetCache(left, key, EmptyList, fNow)
        /\ fFirst' = IF hit THEN fFirst ELSE [fFirst EXCEPT ![key].quiet = FALSE]
        /\ fCleared' = {e \in fCleared : e.key # key}
        /\ UNCHANGED <<fKind, fNow, fTicks, fServer, notFacade>>

\* the API call of a fetch resolves (GoogleCalendarAPI's fetches never reject:
\* a failed request leaves null, which the facade turns into the empty list);
\* the fetch transforms the items, stores them and returns them
FetchResolves(p, ok) ==
    LET op   == fOps[p]
        data == IF ok THEN op.data ELSE EmptyList
    IN  /\ op.type = "fetch"
        /\ op.pc = "inflight"
        /\ fOps' = [fOps EXCEPT ![p] = [op EXCEPT !.pc = "done", !.result = "value",
                                                  !.data = data]]
        /\ fCache' = SetCache(fCache, op.key, data, fNow)
        /\ fFirst' = [fFirst EXCEPT ![op.key] =
                         [stamp |-> fNow, quiet |-> InFlightFor(op.key) = {p},
                          calls |-> op.apiCalls]]
        /\ fCleared' = {IF e.key = op.key THEN [e EXCEPT !.restored = TRUE] ELSE e :
                           e \in fCleared}
        /\ UNCHANGED <<fKind, fReady, fNow, fTicks, fServer, fStarted, notFacade>>

\* a create, update, delete or complete operation up to the await of
\* withRetry(api call); the attempts withRetry makes are its own business
MutationStart(p, name) ==
    /\ CanStart(p)
    /\ fStarted' = fStarted + 1
    /\ name \in MutationsOf(fKind)
    /\ fReady' = TRUE
    /\ \E id \in IF name = "completeTask" THEN FacadeTaskIds ELSE {""} :
          fOps' = [fOps EXCEPT ![p] =
             [IdleOp EXCEPT !.type = "mutation", !.name = name, !.pc = "inflight",
                            !.id = id,
                            !.body = IF name = "completeTask"
                                     THEN CompleteBody(fNow) ELSE NoBody]]
    /\ UNCHANGED <<fKind, fNow, fTicks, fCache, fServer, fFirst, fCleared, notFacade>>

\* withRetry resolves: the whole cache is cleared and the transformed
\* entity is returned
MutationResolves(p) ==
    /\ fOps[p].type = "mutation"
    /\ fOps[p].pc = "inflight"
    /\ fServer' = fServer + 1
    /\ fCache' = ClearCache(fCache, fNow)
    /\ fOps' = [fOps EXCEPT ![p] = [@ EXCEPT !.pc = "done", !.result = "value"]]
    /\ fFirst' = Disturbed
    /\ fCleared' = {c \in fCleared : ~Cached(fCache, c.key)}
                   \cup {[key |-> e.key, timestamp |-> e.timestamp, restored |-> FALSE] :
                            e \in fCache}
    /\ UNCHANGED <<fKind, fReady, fNow, fTicks, fStarted, notFacade>>

\* a catch block that also clears the cache
MutationRejectsClearing(p) ==
    /\ fOps[p].type = "mutation"
    /\ fOps[p].pc = "inflight"
    /\ fOps' = [fOps EXCEPT ![p] = [@ EXCEPT !.pc = "done", !.result = "ServiceError"]]
    /\ fCache' = ClearCache(fCache, fNow)
    /\ UNCHANGED <<fKind, fReady, fNow, fTicks, fServer, fStarted, fFirst, fCleared,
                   notFacade>>

\* withRetry rejects (an error that is not retryable, or the last attempt):
\* the facade throws a ServiceError and leaves the cache alone
MutationRejects(p) ==
    /\ fOps[p].type = "mutation"
    /\ fOps[p].pc = "inflight"
    /\ fOps' = [fOps EXCEPT ![p] = [@ EXCEPT !.pc = "done", !.result = "ServiceError"]]
    /\ UNCHANGED <<fKind, fReady, fNow, fTicks, fCache, fServer, fStarted, fFirst, fCleared,
                   notFacade>>

\* clearCache() called from outside: synchronous
ClearCacheCalled ==
    /\ fStarted < MaxFacadeOps
    /\ fStarted' = fStarted + 1
    /\ fCache' = ClearCache(fCache, fNow)
    /\ fFirst' = Disturbed
    /\ UNCHANGED <<fKind, fReady, fNow, fTicks, fServer, fOps, fCleared, notFacade>>

\* dispose() of a ready facade: onDispose clears the cache
Dispose ==
    /\ fStarted < MaxFacadeOps
    /\ fStarted' = fStarted + 1
    /\ fReady
    /\ fCache' = {}
    /\ fReady' = FALSE
    /\ fFirst' = Disturbed
    /\ UNCHANGED <<fKind, fNow, fTicks, fServer, fOps, fCleared, notFacade>>

\* time passes
Tick(step) ==
    /\ fTicks < MaxTicks
    /\ fTicks' = fTicks + 1
    /\ fNow' = fNow + step
    /\ UNCHANGED <<fKind, fReady, fCache, fServer, fOps, fFirst, fCleared, fStarted, notFacade>>

NextFacade ==
    \/ \E p \in FacadeOpIds, o \in OptionsOf(fKind) : FetchStart(p, o)
    \/ \E p \in FacadeOpIds, ok \in BOOLEAN : FetchResolves(p, ok)
    \/ \E p \in FacadeOpIds, name \in MutationsOf(fKind) : MutationStart(p, name)
    \/ \E p \in FacadeOpIds : MutationResolves(p)
    \/ \E p \in FacadeOpIds : MutationRejects(p)
    \/ ClearCacheCalled
    \/ Dispose
    \/ \E step \in TickSteps : Tick(step)

(***************************************************************************)
(* OAuthServer: the loopback listener of the authorization-code flow.      *)
(* A query parameter is the string it carries; Undefined stands for a      *)
(* parameter the query does not have.                                      *)
(***************************************************************************)
FlowIds == 1..MaxFlows

\* the port is held by a process other than the plugin
OtherProcess == MaxFlows + 1

Undefined == "undefined"

ParamValues(present) == {Undefined, "", present}

\* the requests a listener can receive
Requests ==
    [ path  : {"/callback"},
      error : ParamValues("access_denied"),
      code  : ParamValues("4/abc") ]
    \cup {[path |-> "/favicon.ico", error |-> Undefined, code |-> Undefined]}

\* if (value) on a string | undefined
Truthy(value) == value # Undefined /\ value # ""

\* handleCallback with the two tests in the other order
CallbackBranchCodeFirst(error, code) ==
    IF Truthy(code) THEN "exchange"
    ELSE IF Truthy(error) THEN "denied"
    ELSE "nocode"

\* handleCallback: if (error) ... if (code) ... else ...
CallbackBranch(error, code) ==
    IF Truthy(error) THEN "denied"
    ELSE IF Truthy(code) THEN "exchange"
    ELSE "nocode"

NotSettled == [server |-> 0, closes |-> 0, portFree |-> FALSE]

NoFlow ==
    [ listener   |-> "none",     \* none | bound | listening | failed | closed
      bindError  |-> "none",     \* the 'error' event: none | pending | thrown
      closes     |-> 0,          \* calls of close() on the flow's http.Server
      conn       |-> FALSE,      \* a client holds a connection to the listener
      requests   |-> <<>>,       \* the requests received, with what each did
      exchanges  |-> 0,          \* POSTs sent to the token endpoint
      pending    |-> 0,          \* of which unanswered
      promise    |-> "none",     \* none | pending | resolved | rejected
      reason     |-> "",         \* what the promise settled with
      atSettle   |-> NotSettled, \* history: the server state when it settled
      overlapped |-> FALSE ]     \* history: startOAuthFlow called while pending

\* closeServer that closes the listener and keeps the reference
CloseServerKeepsReference(server, port, flows) ==
    IF server # 0
    THEN [ server |-> server,
           port   |-> IF port = server THEN 0 ELSE port,
           flows  |-> [flows EXCEPT ![server].closes = @ + 1,
                                    ![server].listener = "closed"] ]
    ELSE [server |-> server, port |-> port, flows |-> flows]

\* closeServer: if (this.server) { this.server.close(); this.server = null; }
\* close() stops the listener, which frees the port if the listener held it
CloseServer(server, port, flows) ==
    IF server # 0
    THEN [ server |-> 0,
           port   |-> IF port = server THEN 0 ELSE port,
           flows  |-> [flows EXCEPT ![server].closes = @ + 1,
                                    ![server].listener = "closed"] ]
    ELSE [server |-> server, port |-> port, flows |-> flows]

\* resolve(value) / reject(reason) of the flow's promise: the first one wins
Settle(flow, state, reason, server, port) ==
    IF flow.promise = "pending"
    THEN [flow EXCEPT !.promise = state, !.reason = reason,
                      !.atSettle = [server |-> server, closes |-> flow.closes,
                                    portFree |-> port = 0]]
    ELSE flow

OAuthInit ==
    /\ oServer = 0
    /\ oPort \in {0, OtherProcess}
    /\ oFlows = [f \in FlowIds |-> NoFlow]
    /\ oUncaught = 0

\* startOAuthFlow: the promise is created, this.server is replaced by a new
\* http.Server and listen(8080) binds the port or fails; the 'listening' and
\* 'error' events come later
StartOAuthFlow(f) ==
    /\ oFlows[f].promise = "none"
    /\ \A g \in 1..(f - 1) : oFlows[g].promise # "none"
    /\ oServer' = f
    /\ oPort' = IF oPort = 0 THEN f ELSE oPort
    /\ oFlows' = [g \in FlowIds |->
          IF g = f
          THEN [NoFlow EXCEPT !.promise = "pending",
                              !.listener = IF oPort = 0 THEN "bound" ELSE "failed",
                              !.bindError = IF oPort = 0 THEN "none" ELSE "pending"]
          ELSE IF oFlows[g].promise = "pending"
          THEN [oFlows[g] EXCEPT !.overlapped = TRUE]
          ELSE oFlows[g]]
    /\ UNCHANGED <<oUncaught, notOAuth>>

\* the 'listening' callback: the consent page is opened in the browser
ListenCallback(f) ==
    /\ oFlows[f].listener = "bound"
    /\ oFlows' = [oFlows EXCEPT ![f].listener = "listening"]
    /\ UNCHANGED <<oServer, oPort, oUncaught, notOAuth>>

\* the 'error' handler: closeServer(), then the error is thrown out of the
\* event handler; the promise is neither resolved nor rejected
ListenError(f) ==
    /\ oFlows[f].bindError = "pending"
    /\ LET closed == CloseServer(oServer, oPort, oFlows) IN
          /\ oServer' = closed.server
          /\ oPort' = closed.port
          /\ oFlows' = [closed.flows EXCEPT ![f].bindError = "thrown"]
    /\ oUncaught' = oUncaught + 1
    /\ UNCHANGED notOAuth

\* a request reaches the listener of flow f, on a new connection while it
\* listens or on a connection kept alive after close(); only the path
\* /callback is handled: handleCallback answers, calls closeServer() and then
\* rejects the promise or starts the exchange of the code
Request(f, req) ==
    LET flow   == oFlows[f]
        branch == IF req.path = "/callback"
                  THEN CallbackBranch(req.error, req.code) ELSE "ignored"
        closed == IF branch = "ignored"
                  THEN [server |-> oServer, port |-> oPort, flows |-> oFlows]
                  ELSE CloseServer(oServer, oPort, oFlows)
        logged == [closed.flows[f] EXCEPT
                     !.conn = TRUE,
                     !.requests = Append(@, [path |-> req.path, error |-> req.error,
                                             code |-> req.code, did |-> branch])]
    IN  /\ flow.listener = "listening" \/ flow.conn
        /\ Len(flow.requests) < MaxRequests
        /\ oServer' = closed.server
        /\ oPort' = closed.port
        /\ oFlows' = [closed.flows EXCEPT ![f] =
              CASE branch = "denied" ->
                     Settle(logged, "rejected", "Authorization failed: " \o req.error,
                            closed.server, closed.port)
                [] branch = "nocode" ->
                     Settle(logged, "rejected", "No authorization code received",
                            closed.server, closed.port)
                [] branch = "exchange" ->
                     [logged EXCEPT !.exchanges = @ + 1, !.pending = @ + 1]
                [] OTHER -> logged]
        /\ UNCHANGED <<oUncaught, notOAuth>>

\* the token endpoint answers an exchange: .then(resolve)
ExchangeResolves(f) ==
    /\ oFlows[f].pending > 0
    /\ oFlows' = [oFlows EXCEPT ![f] =
          Settle([@ EXCEPT !.pending = @ - 1], "resolved", "tokens", oServer, oPort)]
    /\ UNCHANGED <<oServer, oPort, oUncaught, notOAuth>>

\* requestUrl throws: exchangeCodeForTokens logs and rethrows, .catch(reject)
ExchangeRejects(f) ==
    /\ oFlows[f].pending > 0
    /\ oFlows' = [oFlows EXCEPT ![f] =
          Settle([@ EXCEPT !.pending = @ - 1], "rejected", "exchange error",
                 oServer, oPort)]
    /\ UNCHANGED <<oServer, oPort, oUncaught, notOAuth>>

\* cleanup(): closeServer()
Cleanup ==
    /\ oServer # 0
    /\ LET closed == CloseServer(oServer, oPort, oFlows) IN
          /\ oServer' = closed.server
          /\ oPort' = closed.port
          /\ oFlows' = closed.flows
    /\ UNCHANGED <<oUncaught, notOAuth>>

NextOAuth ==
    \/ \E f \in FlowIds : StartOAuthFlow(f)
    \/ \E f \in FlowIds : ListenCallback(f)
    \/ \E f \in FlowIds : ListenError(f)
    \/ \E f \in FlowIds, req \in Requests : Request(f, req)
    \/ \E f \in FlowIds : ExchangeResolves(f)
    \/ \E f \in FlowIds : ExchangeRejects(f)
    \/ Cleanup

(***************************************************************************)
(* GoogleCalendarProvider: validation, the provider's own withRetry with   *)
(* typed errors, and the provider's event and task caches.  One provider   *)
(* operation runs at a time; the attempts of a mutation go through         *)
(* makeRequest of the wrapped GoogleCalendarAPI.                           *)
(***************************************************************************)
\* GOOGLE_CALENDAR_CONSTANTS.RATE_LIMIT and .CACHE
MAX_RETRIES == 3

INITIAL_BACKOFF_MS == 1000

MAX_BACKOFF_MS == 16000

BACKOFF_MULTIPLIER == 2

EVENT_CACHE_TTL_MS == 900000

\* an error value: its class, its status / statusCode (0 for undefined) and
\* its message
PError(class, status, msg) == [class |-> class, status |-> status, msg |-> msg]

NoPError == PError("", 0, "")

\* throw new Error(msg) inside the API client
PlainError(msg) == PError("Error", 0, msg)

\* the error requestUrl throws for a response of that status; 0 is a failure
\* without a status
ResponseError(status) == PError("Error", status, "Request failed")

\* what requestUrl can answer to a request of the provider
ProviderStatuses == {200, 401, 404, 429, 500, 0}

\* error instanceof GoogleCalendarError (the class and its subclasses)
InstanceOfGoogleCalendarError(error) ==
    error.class \in {"GoogleCalendarError", "RateLimitError",
                     "EventNotFoundError", "CalendarNotFoundError"}

\* the conversion of the caught error into a typed error
ConvertError(error) ==
    IF InstanceOfGoogleCalendarError(error) THEN error
    ELSE IF error.status = 429
         THEN PError("RateLimitError", 429, "Rate limit exceeded for Google Calendar")
    ELSE IF error.status >= 500
         THEN PError("GoogleCalendarError", error.status, error.msg)
    ELSE IF error.status = 0
         THEN PError("NetworkError", 0, error.msg)
    ELSE error

\* isRetriableError: the instanceof tests in the order of the source
IsRetriableError(error) ==
    IF error.class = "NetworkError" THEN TRUE
    ELSE IF InstanceOfGoogleCalendarError(error)
         THEN (IF error.status # 0 THEN error.status >= 500 ELSE FALSE)
    ELSE IF error.class = "RateLimitError" THEN TRUE
    ELSE FALSE

\* Math.min(INITIAL_BACKOFF_MS * Math.pow(BACKOFF_MULTIPLIER, attempt), MAX_BACKOFF_MS)
Backoff(attempt) ==
    Min(INITIAL_BACKOFF_MS * Pow(BACKOFF_MULTIPLIER, attempt), MAX_BACKOFF_MS)

\* ---- validation (services/validation.ts)
\* a string is its length and the length of its trim(); Absent is undefined
Text(len, trimLen) == [len |-> len, trimLen |-> trimLen]

Absent == Text(-1, -1)

IsTruthyText(text) == text.len > 0

Titles == {Absent, Text(0, 0), Text(3, 0), Text(5, 5), Text(1001, 1001), Text(1025, 1025)}

\* start / end: dateTime is the instant new Date(dateTime) denotes, 0 when the
\* field is absent and NaN when the string does not parse; date says whether
\* an all-day date is given
NaN == -1

EventTimes == {[dateTime |-> 0, date |-> FALSE], [dateTime |-> 0, date |-> TRUE],
               [dateTime |-> 10, date |-> FALSE], [dateTime |-> 20, date |-> FALSE],
               [dateTime |-> NaN, date |-> FALSE]}

\* the attendees, each by whether validateEmail accepts its address
AttendeeLists == {<<>>, <<TRUE>>, <<TRUE, FALSE>>}

EventOptions ==
    [ summary : Titles \ {Text(1025, 1025)}, start : EventTimes, end : EventTimes,
      attendees : AttendeeLists,
      description : {Absent, Text(8193, 8193)},
      location : {Absent, Text(1025, 1025)} ]

\* due: 0 absent, NaN unparseable, else the instant
TaskOptions ==
    [ title : Titles, notes : {Absent, Text(10, 10), Text(8193, 8193)},
      due : {0, 10, NaN} ]

Valid == ""

\* validateDateRange: the message of the ValidationError, Valid when none
ValidateDateRange(start, end) ==
    IF start = NaN THEN "Start date is invalid"
    ELSE IF end = NaN THEN "End date is invalid"
    ELSE IF start >= end THEN "End date/time must be after start date/time"
    ELSE Valid

\* validateEventData: the message of the ValidationError it throws
ValidateEventData(event) ==
    IF ~IsTruthyText(event.summary) \/ event.summary.trimLen = 0
    THEN "Event title is required"
    ELSE IF event.summary.len > 1000
    THEN "Event title is too long (max 1000 characters)"
    ELSE IF event.start.dateTime = 0 /\ ~event.start.date
    THEN "Event start date/time is required"
    ELSE IF event.end.dateTime = 0 /\ ~event.end.date
    THEN "Event end date/time is required"
    ELSE IF /\ event.start.dateTime # 0 /\ event.end.dateTime # 0
            /\ ValidateDateRange(event.start.dateTime, event.end.dateTime) # Valid
    THEN ValidateDateRange(event.start.dateTime, event.end.dateTime)
    ELSE IF \E i \in 1..Len(event.attendees) : ~event.attendees[i]
    THEN "Invalid email(s)"
    ELSE IF IsTruthyText(event.description) /\ event.description.len > 8192
    THEN "Event description is too long (max 8192 characters)"
    ELSE IF IsTruthyText(event.location) /\ event.location.len > 1024
    THEN "Event location is too long (max 1024 characters)"
    ELSE Valid

\* validateTaskData on { title, notes, due }
ValidateTaskData(task) ==
    IF ~IsTruthyText(task.title) \/ task.title.trimLen = 0
    THEN "Task title is required"
    ELSE IF task.title.len > 1024
    THEN "Task title is too long (max 1024 characters)"
    ELSE IF IsTruthyText(task.notes) /\ task.notes.len > 8192
    THEN "Task notes are too long (max 8192 characters)"
    ELSE IF task.due # 0 /\ task.due = NaN
    THEN "Task due date is invalid"
    ELSE Valid

\* what the validators answer to the options of a create
EventValidations == {ValidateEventData(o) : o \in EventOptions}

TaskValidations == {ValidateTaskData(o) : o \in TaskOptions}

\* ---- the provider's operations
ProviderEventKeys == {"d1-d2", "d1-d3"}

EventMutations == {"createEvent", "updateEvent", "deleteEvent"}

TaskMutations == {"createTask", "updateTask", "completeTask", "deleteTask"}

NoRequest == [op |-> "", id |-> "", body |-> NoBody, token |-> 0]

\* the request makeRequest sends for the operation
PRequest(op, token) ==
    [op |-> ApiOpOf(op.kind), id |-> op.id, body |-> op.body, token |-> token]

IdlePOp ==
    [ kind      |-> "",
      pc        |-> "idle",    \* idle | requested | refreshing | resent |
                               \* sleeping | fetching | resolved | rejected
      id        |-> "",        \* the task the operation is about
      body      |-> NoBody,    \* the object handed to the API operation
      called    |-> 0,         \* Date.now() when the operation was called
      attempt   |-> 0,         \* let attempt of withRetry
      calls     |-> 0,         \* invocations of fn by withRetry
      requests  |-> 0,         \* how many requests were sent to Google
      request   |-> NoRequest, \* the last of them
      raised    |-> NoPError,  \* what the last failed invocation of fn threw
      sleeps    |-> <<>>,      \* the backoffs handed to setTimeout
      thrown    |-> NoPError,  \* what the operation rejected with
      checked   |-> Valid,     \* what the validator said of the data of a create
      eventsAtCall |-> {},     \* the caches when the operation was called
      tasksAtCall  |-> {} ]

\* eventCache / lastEventRefresh and taskCache / lastTaskRefresh, which are
\* written and cleared together: one [key, stamp] per key
PCacheHit(cache, key, now) ==
    \E e \in cache : e.key = key /\ now - e.stamp < EVENT_CACHE_TTL_MS

PCacheSet(cache, key, now) ==
    {e \in cache : e.key # key} \cup {[key |-> key, stamp |-> now]}

\* invalidateEventCache
InvalidateEventCache(cache) == {}

\* invalidateTaskCache
InvalidateTaskCache(cache) == {}

\* a catch block that retries whatever the error is
PCatchRetriesAll(op, error) ==
    LET lastError == ConvertError(error)
        seen == [op EXCEPT !.raised = error]
    IN  IF op.attempt = MAX_RETRIES
        THEN [seen EXCEPT !.pc = "rejected", !.thrown = lastError]
        ELSE [seen EXCEPT !.pc = "sleeping",
                          !.sleeps = Append(@, Backoff(op.attempt))]

\* the catch block of withRetry for the error fn threw
PCatch(op, error) ==
    LET lastError == ConvertError(error)
        seen == [op EXCEPT !.raised = error]
    IN  IF ~IsRetriableError(lastError) \/ op.attempt = MAX_RETRIES
        THEN [seen EXCEPT !.pc = "rejected", !.thrown = lastError]
        ELSE [seen EXCEPT !.pc = "sleeping",
                          !.sleeps = Append(@, Backoff(op.attempt))]

\* one invocation of fn up to its first await: the API operation checks the
\* credentials, makeRequest checks the access token and sends the request
PAttempt(op, cred) ==
    LET called == [op EXCEPT !.calls = @ + 1]
    IN  IF ~cred.configured
        THEN PCatch(called, PlainError("Google Calendar API credentials not configured"))
        ELSE IF cred.accessToken = 0
        THEN PCatch(called, PlainError("No access token available"))
        ELSE [called EXCEPT !.pc = "requested",
                            !.requests = @ + 1,
                            !.request = PRequest(op, cred.accessToken)]

ProviderInit ==
    /\ pCred \in [configured : BOOLEAN, accessToken : {0, 1}, refreshToken : {0, 1}]
    /\ pNow = 0
    /\ pTicks = 0
    /\ pEventCache = {}
    /\ pTaskCache = {}
    /\ pOp = IdlePOp
    /\ pCalled = 0

PIdle == pOp.pc \in {"idle", "resolved", "rejected"} /\ pCalled < MaxProviderOps

PBegin(kind, id, body) ==
    [IdlePOp EXCEPT !.kind = kind, !.id = id, !.body = body, !.called = pNow,
                    !.eventsAtCall = pEventCache, !.tasksAtCall = pTaskCache]

\* createEvent / createTask after the event / task object is built: the
\* validator's error is rethrown, else withRetry invokes fn for the first time
CreateFlowValidatesLate(op, cred) ==
    IF op.checked # Valid
    THEN [PAttempt(op, cred) EXCEPT !.pc = "rejected",
                                    !.thrown = PError("ValidationError", 0, op.checked)]
    ELSE PAttempt(op, cred)

CreateFlow(op, cred) ==
    IF op.checked # Valid
    THEN [op EXCEPT !.pc = "rejected",
                    !.thrown = PError("ValidationError", 0, op.checked)]
    ELSE PAttempt(op, cred)

CreateCalled(kind) ==
    /\ PIdle
    /\ \E msg \in IF kind = "createEvent" THEN EventValidations ELSE TaskValidations :
          pOp' = CreateFlow([PBegin(kind, "", NoBody) EXCEPT !.checked = msg], pCred)
    /\ pCalled' = pCalled + 1
    /\ UNCHANGED <<pCred, pNow, pTicks, pEventCache, pTaskCache, notProvider>>

\* update, complete and delete: the body is built and withRetry invokes fn
\* for the first time
MutationCalled(kind, id) ==
    /\ PIdle
    /\ kind \in TaskMutations => id \in TaskIds
    /\ kind \in EventMutations => id \in EventIds
    /\ pOp' = PAttempt(PBegin(kind, id,
                              IF kind = "completeTask" THEN CompleteBody(pNow) ELSE NoBody),
                       pCred)
    /\ pCalled' = pCalled + 1
    /\ UNCHANGED <<pCred, pNow, pTicks, pEventCache, pTaskCache, notProvider>>

\* the operation returns: its cache is invalidated
PResolved(op) ==
    /\ pOp' = [op EXCEPT !.pc = "resolved"]
    /\ pEventCache' = IF op.kind \in EventMutations
                      THEN InvalidateEventCache(pEventCache) ELSE pEventCache
    /\ pTaskCache' = IF op.kind \in TaskMutations
                     THEN InvalidateTaskCache(pTaskCache) ELSE pTaskCache

\* requestUrl answers the request of makeRequest
PResponse(status) ==
    /\ pOp.pc = "requested"
    /\ IF status = 200
       THEN PResolved(pOp) /\ UNCHANGED pCred
       ELSE IF status = 401 /\ pCred.refreshToken # 0
       THEN /\ pOp' = [pOp EXCEPT !.pc = "refreshing"]
            /\ UNCHANGED <<pCred, pEventCache, pTaskCache>>
       ELSE /\ pOp' = PCatch(pOp, IF status = 401
                                  THEN PlainError("No refresh token available")
                                  ELSE ResponseError(status))
            /\ UNCHANGED <<pCred, pEventCache, pTaskCache>>
    /\ UNCHANGED <<pNow, pTicks, pCalled, notProvider>>

\* the token endpoint answers the refresh: the access token of the response,
\* when there is one, replaces the credential, and the request is sent again
PRefreshResolves(token) ==
    /\ pOp.pc = "refreshing"
    /\ pCred' = IF token # 0 THEN [pCred EXCEPT !.accessToken = token] ELSE pCred
    /\ pOp' = [pOp EXCEPT !.pc = "resent",
                          !.requests = @ + 1,
                          !.request = PRequest(pOp, pCred'.accessToken)]
    /\ UNCHANGED <<pNow, pTicks, pEventCache, pTaskCache, pCalled, notProvider>>

\* the refresh fails: makeRequest throws the error of the token request
PRefreshRejects(status) ==
    /\ pOp.pc = "refreshing"
    /\ pOp' = PCatch(pOp, ResponseError(status))
    /\ UNCHANGED <<pCred, pNow, pTicks, pEventCache, pTaskCache, pCalled, notProvider>>

\* requestUrl answers the request sent again after the refresh
PResendResponse(status) ==
    /\ pOp.pc = "resent"
    /\ IF status = 200
       THEN PResolved(pOp)
       ELSE /\ pOp' = PCatch(pOp, ResponseError(status))
            /\ UNCHANGED <<pEventCache, pTaskCache>>
    /\ UNCHANGED <<pCred, pNow, pTicks, pCalled, notProvider>>

\* the backoff timer fires: attempt++ and fn is invoked again
PTimerFires ==
    /\ pOp.pc = "sleeping"
    /\ pNow' = pNow + pOp.sleeps[Len(pOp.sleeps)]
    /\ pOp' = PAttempt([pOp EXCEPT !.attempt = @ + 1], pCred)
    /\ UNCHANGED <<pCred, pTicks, pEventCache, pTaskCache, pCalled, notProvider>>

\* getEventsForDateRange / getTasks: a fresh cache entry is returned, else
\* the API is asked through withRetry
PFetchCalled(kind, key) ==
    /\ PIdle
    /\ \/ kind = "getEventsForDateRange" /\ key \in ProviderEventKeys
       \/ kind = "getTasks" /\ key = "all-tasks"
    /\ LET cache == IF kind = "getTasks" THEN pTaskCache ELSE pEventCache
           begun == [PBegin(kind, key, NoBody) EXCEPT !.calls = 1]
       IN  pOp' = IF PCacheHit(cache, key, pNow)
                  THEN [PBegin(kind, key, NoBody) EXCEPT !.pc = "resolved"]
                  ELSE [begun EXCEPT !.pc = "fetching"]
    /\ pCalled' = pCalled + 1
    /\ UNCHANGED <<pCred, pNow, pTicks, pEventCache, pTaskCache, notProvider>>

\* the API fetch resolves: with null (its catch block swallowed the failure),
\* which is returned as it is, or with a list, which is cached under the
\* time the fetch was called at
PFetchResolves(ok) ==
    /\ pOp.pc = "fetching"
    /\ pOp' = [pOp EXCEPT !.pc = "resolved"]
    /\ pEventCache' = IF ok /\ pOp.kind = "getEventsForDateRange"
                      THEN PCacheSet(pEventCache, pOp.id, pOp.called) ELSE pEventCache
    /\ pTaskCache' = IF ok /\ pOp.kind = "getTasks"
                     THEN PCacheSet(pTaskCache, pOp.id, pOp.called) ELSE pTaskCache
    /\ UNCHANGED <<pCred, pNow, pTicks, pCalled, notProvider>>

\* time passes
PTick ==
    /\ pTicks < MaxProviderTicks
    /\ pTicks' = pTicks + 1
    /\ pNow' = pNow + EVENT_CACHE_TTL_MS
    /\ UNCHANGED <<pCred, pEventCache, pTaskCache, pOp, pCalled, notProvider>>

NextProvider ==
    \/ \E kind \in {"createEvent", "createTask"} : CreateCalled(kind)
    \/ \E kind \in (EventMutations \cup TaskMutations) \ {"createEvent", "createTask"},
          id \in TaskIds \cup EventIds : MutationCalled(kind, id)
    \/ \E status \in ProviderStatuses : PResponse(status)
    \/ \E token \in {0, 2} : PRefreshResolves(token)
    \/ \E status \in TokenFailures : PRefreshRejects(status)
    \/ \E status \in ProviderStatuses : PResendResponse(status)
    \/ PTimerFires
    \/ \E kind \in {"getEventsForDateRange", "getTasks"},
          key \in ProviderEventKeys \cup {"all-tasks"} : PFetchCalled(kind, key)
    \/ \E ok \in BOOLEAN : PFetchResolves(ok)
    \/ PTick

(***************************************************************************)
(* One facade operation that reaches its API call: the try block around    *)
(* withRetry(api call, this.retryConfig) and its catch block.              *)
(***************************************************************************)
\* the operations with a try block, by facade
FacadeOperations(facade) ==
    IF facade = "events"
    THEN {"fetchEvents", "createEvent", "updateEvent", "deleteEvent"}
    ELSE {"fetchTasks", "createTask", "updateTask", "deleteTask"}

\* the second argument of new ServiceError in the catch blocks
ServiceNameOf(facade) ==
    IF facade = "events" THEN "GoogleCalendarFacade" ELSE "GoogleTasksFacade"

FailureMessageGeneric(facade, operation) == "Failed in " \o ServiceNameOf(facade)

\* the first argument of new ServiceError in the catch block of the operation
FailureMessageOf(facade, operation) ==
    CASE operation = "fetchEvents" -> "Failed to fetch events"
      [] operation = "createEvent" -> "Failed to create event"
      [] operation = "updateEvent" -> "Failed to update event"
      [] operation = "deleteEvent" -> "Failed to delete event"
      [] operation = "fetchTasks"  -> "Failed to fetch tasks"
      [] operation = "createTask"  -> "Failed to create task"
      [] operation = "updateTask"  -> "Failed to update task"
      [] operation = "deleteTask"  -> "Failed to delete task"

\* new ServiceError(message, serviceName, originalError)
ServiceError(message, serviceName, originalError) ==
    [ name |-> "ServiceError", message |-> message, serviceName |-> serviceName,
      originalError |-> originalError ]

\* results that are no ServiceError: the operation is running, has returned
Pending == ServiceError("", "", NoError)

CallReturned == [Pending EXCEPT !.name = "returned"]

CallInit ==
    /\ cFacade \in {"events", "tasks"}
    /\ cOperation \in FacadeOperations(cFacade)
    /\ cResult = Pending

\* withRetry resolved: the operation returns
FacadeReturns ==
    /\ cResult = Pending
    /\ rPc = "resolved"
    /\ cResult' = CallReturned
    /\ UNCHANGED <<cFacade, cOperation, retryVars, apiVars, facadeVars, oauthVars,
                   providerVars, tasksVars, serviceVars, bodyVars, authVars,
                   sliceVars, containerVars, thunkVars, layer>>

\* withRetry threw: catch (error) { throw new ServiceError(..., error
\* instanceof Error ? error : undefined) }.  What withRetry throws is an
\* Error, or undefined (NoError) when fn was never invoked
FacadeCatches ==
    /\ cResult = Pending
    /\ rPc = "rejected"
    /\ cResult' = ServiceError(FailureMessageOf(cFacade, cOperation),
                               ServiceNameOf(cFacade), rThrown)
    /\ UNCHANGED <<cFacade, cOperation, retryVars, apiVars, facadeVars, oauthVars,
                   providerVars, tasksVars, serviceVars, bodyVars, authVars,
                   sliceVars, containerVars, thunkVars, layer>>

NextFacadeCall ==
    \/ NextRetry
    \/ FacadeReturns
    \/ FacadeCatches

(***************************************************************************)
(* GoogleCalendarAPI.getTasksForDate / getTasksForDateRange: the request   *)
(* for the task lists, one request per list, and the filter on due.        *)
(* A calendar day is a number; an instant is a number of ticks, DayTicks   *)
(* to the day, the last tick of a day standing for 23:59:59.999.  The      *)
(* local time is UTC + tZone ticks.                                        *)
(***************************************************************************)
DayTicks == 4

\* oneYearAgo.setDate(oneYearAgo.getDate() - 365)
DaysBack == 365

\* the offsets of the local zone from UTC
Zones == {-1, 0, 1}

\* new Date('YYYY-MM-DD'): midnight UTC of that day
ParseDate(day) == day * DayTicks

\* date.setHours(...): the instant with the local time of day set to tick,
\* on the local day the instant falls in
SetHours(instant, zone, tick) ==
    ((instant + zone) \div DayTicks) * DayTicks + tick - zone

\* the bounds of the filter: [oneYearAgo, targetDate] for getTasksForDate,
\* [startDateTime, endDateTime] for getTasksForDateRange
UpperBound(end, zone) == SetHours(ParseDate(end), zone, DayTicks - 1)

LowerBoundStartOfDay(kind, start, end, zone) == SetHours(ParseDate(start), zone, 0)

LowerBound(kind, start, end, zone) ==
    IF kind = "getTasksForDate"
    THEN UpperBound(end, zone) - DaysBack * DayTicks
    ELSE SetHours(ParseDate(start), zone, 0)

NoDue == [defined |-> FALSE, instant |-> 0]

Due(instant) == [defined |-> TRUE, instant |-> instant]

\* the callback of tasks.filter
DueFilter(task, lo, hi) ==
    IF ~task.due.defined THEN TRUE
    ELSE task.due.instant >= lo /\ task.due.instant <= hi

FilterTasks(tasks, lo, hi) == SelectSeq(tasks, LAMBDA task : DueFilter(task, lo, hi))

\* the days a range may name, and the due values of the tasks Google holds:
\* every instant from the day before the first to the day after the last,
\* the same a year earlier, and no due at all
LastDay == 3

QueryDays == {LastDay - 1, LastDay}

NearInstants == DayTicks..((LastDay + 2) * DayTicks - 1)

DueValues ==
    {NoDue} \cup {Due(i) : i \in NearInstants}
            \cup {Due(i - DaysBack * DayTicks) : i \in NearInstants}

\* what the tasks API holds: two lists with one task each; the second list
\* may lack an id
TaskListSets ==
    { << [id |-> TRUE, tasks |-> <<[id |-> "a", due |-> d1]>>],
         [id |-> hasId, tasks |-> <<[id |-> "b", due |-> d2]>>] >> :
         d1 \in DueValues,
         d2 \in {NoDue, Due(ParseDate(LastDay)), Due(ParseDate(LastDay + 2))},
         hasId \in BOOLEAN }

\* what the callback of taskLists.map has come to for one list
NotAsked == [st |-> "none", items |-> <<>>]

Asked == [st |-> "pending", items |-> <<>>]

\* if (!taskList.id) return []
Skipped == [st |-> "skipped", items |-> <<>>]

Answered(items) == [st |-> "ok", items |-> items]

ListCatchRethrows == [st |-> "thrown", items |-> <<>>]

\* the catch block of the callback: log and return []
ListCatch == [st |-> "failed", items |-> <<>>]

\* taskResults.flat()
RECURSIVE Flat(_)
Flat(results) ==
    IF results = <<>> THEN <<>> ELSE Head(results).items \o Flat(Tail(results))

NullResult == [null |-> TRUE, items |-> <<>>]

TaskList_(items) == [null |-> FALSE, items |-> items]

TasksInit ==
    /\ tZone \in Zones
    /\ tKind \in {"getTasksForDate", "getTasksForDateRange", "getTasks"}
    /\ tStart \in IF tKind = "getTasks" THEN {0} ELSE QueryDays
    /\ tEnd \in IF tKind = "getTasks" THEN {0} ELSE QueryDays
    /\ tStart <= tEnd
    /\ tKind = "getTasksForDate" => tStart = tEnd
    /\ tLists \in TaskListSets
    /\ tPc = "called"
    /\ tSlots = [i \in 1..2 |-> NotAsked]
    /\ tResult = NullResult

\* the request for the task lists is answered; on success the callback runs
\* for every list up to its own request
ListsResponse(ok) ==
    /\ tKind # "getTasks"
    /\ tPc = "called"
    /\ IF ok
       THEN /\ tPc' = "fanned"
            /\ tSlots' = [i \in 1..2 |-> IF tLists[i].id THEN Asked ELSE Skipped]
            /\ UNCHANGED tResult
       ELSE /\ tPc' = "done"
            /\ tResult' = NullResult
            /\ UNCHANGED tSlots
    /\ UNCHANGED <<tZone, tKind, tStart, tEnd, tLists, notTasks>>

\* the request for the tasks of one list is answered
ListResponse(i, ok) ==
    /\ tPc = "fanned"
    /\ tSlots[i] = Asked
    /\ tSlots' = [tSlots EXCEPT ![i] =
          IF ok
          THEN Answered(FilterTasks(tLists[i].tasks,
                                    LowerBound(tKind, tStart, tEnd, tZone),
                                    UpperBound(tEnd, tZone)))
          ELSE ListCatch]
    /\ UNCHANGED <<tZone, tKind, tStart, tEnd, tLists, tPc, tResult, notTasks>>

\* Promise.all settles: rejected when a callback threw, which the outer catch
\* turns into null; else the results are flattened
AllSettled ==
    /\ tPc = "fanned"
    /\ \A i \in 1..2 : tSlots[i] # Asked
    /\ tPc' = "done"
    /\ tResult' = IF \E i \in 1..2 : tSlots[i].st = "thrown"
                  THEN NullResult
                  ELSE TaskList_(Flat(tSlots))
    /\ UNCHANGED <<tZone, tKind, tStart, tEnd, tLists, tSlots, notTasks>>

\* getTasks(): the one request, for the tasks of the list @default (the first
\* of the user's lists), is answered; a failure is caught and null returned
DefaultListResponse(ok) ==
    /\ tKind = "getTasks"
    /\ tPc = "called"
    /\ tPc' = "done"
    /\ tResult' = IF ok THEN TaskList_(tLists[1].tasks) ELSE NullResult
    /\ UNCHANGED <<tZone, tStart, tEnd, tKind, tLists, tSlots, notTasks>>

NextTasks ==
    \/ \E ok \in BOOLEAN : DefaultListResponse(ok)
    \/ \E ok \in BOOLEAN : ListsResponse(ok)
    \/ \E i \in 1..2, ok \in BOOLEAN : ListResponse(i, ok)
    \/ AllSettled

(***************************************************************************)
(* BaseService: initialize, waitForReady and dispose of one facade.        *)
(***************************************************************************)
\* waitForReady(timeout = 5000)
WAIT_TIMEOUT == 5000

\* setTimeout(resolve, 100)
POLL_MS == 100

NotCalled == [pc |-> "none", elapsed |-> 0, ran |-> FALSE, error |-> <<>>]

\* if (this._isReady) return
ReturnedAtOnce == [pc |-> "resolved", elapsed |-> 0, ran |-> FALSE, error |-> <<>>]

\* await this.onInitialize()
Awaiting == [pc |-> "awaiting", elapsed |-> 0, ran |-> TRUE, error |-> <<>>]

\* await this.waitForReady(), elapsed being Date.now() - startTime
Waiting(elapsed) == [pc |-> "waiting", elapsed |-> elapsed, ran |-> FALSE, error |-> <<>>]

\* onInitialize of the facades: throws when the api was not provided
OnInitializeError == <<"Google", "Calendar", "API", "not", "provided">>

TimeoutError == <<"Service", "initialization", "timeout">>

AfterOnInitializeNoFinally(ok) == [ready |-> ok, initializing |-> TRUE]

\* try { ...; this._isReady = true } catch { this._isReady = false; throw }
\* finally { this._isInitializing = false }
AfterOnInitialize(ok) == [ready |-> ok, initializing |-> FALSE]

ServiceInit ==
    /\ sApi \in BOOLEAN
    /\ sReady = FALSE
    /\ sInitializing = FALSE
    /\ sRuns = 0
    /\ sCalls = [i \in 1..MaxInitCalls |-> NotCalled]
    /\ sDisposals = [called |-> 0, awaiting |-> 0]

\* initialize() is called: up to its first await
InitializeCalled(i) ==
    /\ sCalls[i] = NotCalled
    /\ \A j \in 1..(i - 1) : sCalls[j] # NotCalled
    /\ IF sReady
       THEN /\ sCalls' = [sCalls EXCEPT ![i] = ReturnedAtOnce]
            /\ UNCHANGED <<sInitializing, sRuns>>
       ELSE IF sInitializing
       THEN /\ sCalls' = [sCalls EXCEPT ![i] = Waiting(0)]
            /\ UNCHANGED <<sInitializing, sRuns>>
       ELSE /\ sInitializing' = TRUE
            /\ sRuns' = sRuns + 1
            /\ sCalls' = [sCalls EXCEPT ![i] = Awaiting]
    /\ UNCHANGED <<sApi, sReady, sDisposals, notService>>

\* the promise of onInitialize settles and initialize() runs to its end
OnInitializeSettles(i) ==
    /\ sCalls[i].pc = "awaiting"
    /\ sReady' = AfterOnInitialize(sApi).ready
    /\ sInitializing' = AfterOnInitialize(sApi).initializing
    /\ sCalls' = [sCalls EXCEPT ![i] =
          IF sApi THEN [@ EXCEPT !.pc = "resolved"]
          ELSE [@ EXCEPT !.pc = "rejected", !.error = OnInitializeError]]
    /\ UNCHANGED <<sApi, sRuns, sDisposals, notService>>

\* the timer of waitForReady fires and the loop condition is tested again
WaitTimerFires(i) ==
    /\ sCalls[i].pc = "waiting"
    /\ LET elapsed == sCalls[i].elapsed + POLL_MS
       IN  sCalls' = [sCalls EXCEPT ![i] =
              IF ~sReady /\ elapsed < WAIT_TIMEOUT THEN Waiting(elapsed)
              ELSE IF ~sReady
              THEN [@ EXCEPT !.pc = "rejected", !.elapsed = elapsed, !.error = TimeoutError]
              ELSE [@ EXCEPT !.pc = "resolved", !.elapsed = elapsed]]
    /\ UNCHANGED <<sApi, sReady, sInitializing, sRuns, sDisposals, notService>>

\* dispose() is called: up to its await of onDispose
DisposeCalled ==
    /\ sDisposals.called < MaxDisposals
    /\ sDisposals' = [called |-> sDisposals.called + 1,
                      awaiting |-> IF sReady THEN sDisposals.awaiting + 1
                                   ELSE sDisposals.awaiting]
    /\ UNCHANGED <<sApi, sReady, sInitializing, sRuns, sCalls, notService>>

\* the promise of onDispose settles: finally { this._isReady = false }
OnDisposeSettles ==
    /\ sDisposals.awaiting > 0
    /\ sReady' = FALSE
    /\ sDisposals' = [sDisposals EXCEPT !.awaiting = @ - 1]
    /\ UNCHANGED <<sApi, sInitializing, sRuns, sCalls, notService>>

NextService ==
    \/ \E i \in 1..MaxInitCalls : InitializeCalled(i)
    \/ \E i \in 1..MaxInitCalls : OnInitializeSettles(i)
    \/ \E i \in 1..MaxInitCalls : WaitTimerFires(i)
    \/ DisposeCalled
    \/ OnDisposeSettles

(***************************************************************************)
(* The body of a task update: what updateTask and completeTask of the      *)
(* tasks facade and of the provider hand to api.updateTask.  A field that  *)
(* is undefined (and so left out by JSON.stringify) is Undefined, or       *)
(* NoTimestamp for completed.                                              *)
(***************************************************************************)
\* the updates a caller may hand to updateTask
TaskUpdates ==
    [ title     : {Undefined, "", "Buy milk"},
      notes     : {Undefined, "2 litres"},
      due       : {Undefined, "2024-01-15"},
      status    : {Undefined, "needsAction", "completed"},
      completed : {NoTimestamp, ToISOString(5)} ]

NoUpdates ==
    [ title |-> Undefined, notes |-> Undefined, due |-> Undefined,
      status |-> Undefined, completed |-> NoTimestamp ]

\* GoogleTasksFacade.updateTask: apiTask copies the five fields
FacadeUpdateBody(updates) ==
    [ title |-> updates.title, notes |-> updates.notes, status |-> updates.status,
      due |-> updates.due, completed |-> updates.completed ]

\* GoogleCalendarProvider.updateTask: title when truthy, notes and due when
\* not undefined; status and completed are never set
ProviderUpdateBody(options) ==
    [ title |-> IF Truthy(options.title) THEN options.title ELSE Undefined,
      notes |-> options.notes, due |-> options.due,
      status |-> Undefined, completed |-> NoTimestamp ]

\* completeTask of the facade (through updateTask) and of the provider
CompleteTaskBody(side, now) ==
    IF side = "facade"
    THEN FacadeUpdateBody([NoUpdates EXCEPT !.status = CompleteBody(now).status,
                                            !.completed = CompleteBody(now).completed])
    ELSE [NoUpdates EXCEPT !.status = CompleteBody(now).status,
                           !.completed = CompleteBody(now).completed]

BodyInit ==
    /\ uLayer \in {"facade", "provider"}
    /\ uOperation \in {"updateTask", "completeTask"}
    /\ uUpdates \in TaskUpdates
    /\ uOperation = "completeTask" => uUpdates = NoUpdates
    /\ uNow \in {0, 7}
    /\ uSent = <<>>

\* updateTask builds the body and hands it to api.updateTask
UpdateTaskSends ==
    /\ uOperation = "updateTask"
    /\ uSent = <<>>
    /\ uSent' = <<IF uLayer = "facade" THEN FacadeUpdateBody(uUpdates)
                                       ELSE ProviderUpdateBody(uUpdates)>>
    /\ UNCHANGED <<uLayer, uOperation, uUpdates, uNow, notBody>>

\* completeTask builds the body and hands it to api.updateTask
CompleteTaskSends ==
    /\ uOperation = "completeTask"
    /\ uSent = <<>>
    /\ uSent' = <<CompleteTaskBody(uLayer, uNow)>>
    /\ UNCHANGED <<uLayer, uOperation, uUpdates, uNow, notBody>>

NextBody == UpdateTaskSends \/ CompleteTaskSends

(***************************************************************************)
(* The auth slice: the reducers of authSlice and the extra reducers for    *)
(* the thunks startAuthFlow, refreshAccessToken and logout.  Null is null; *)
(* Undefined is a field the payload does not have.                         *)
(***************************************************************************)
Null == "null"

\* value || fallback on a string | undefined
OrElse(value, fallback) == IF Truthy(value) THEN value ELSE fallback

\* initialState
InitialAuthState ==
    [ isAuthenticated |-> FALSE, accessToken |-> Null, refreshToken |-> Null,
      expiresAt |-> Null, error |-> Null, loading |-> FALSE ]

\* the payloads of the actions
AuthSucceededPayloads ==
    [accessToken : {"a1", "a2"}, refreshToken : {"r1", "r2"}, expiresAt : {"t1"}]

TokenRefreshedPayloads == [accessToken : {"a1", "a2"}, expiresAt : {"t1", "t2"}]

\* OAuthTokens: every field is optional
OAuthTokenPayloads ==
    [ access_token : {Undefined, "a1", "a2"}, refresh_token : {Undefined, "", "r1", "r2"},
      expiry_date : {Undefined, "t1"} ]

\* the rejectValue of a thunk, Undefined when it threw outside its try block
RejectValues == {Undefined, "Request failed"}

AuthStarted(state) == [state EXCEPT !.loading = TRUE, !.error = Null]

AuthSucceeded(state, payload) ==
    [ isAuthenticated |-> TRUE, accessToken |-> payload.accessToken,
      refreshToken |-> payload.refreshToken, expiresAt |-> payload.expiresAt,
      loading |-> FALSE, error |-> Null ]

AuthFailed(state, payload) ==
    [state EXCEPT !.isAuthenticated = FALSE, !.loading = FALSE, !.error = payload]

TokenRefreshed(state, payload) ==
    [state EXCEPT !.accessToken = payload.accessToken,
                  !.expiresAt = payload.expiresAt, !.error = Null]

LoggedOut(state) == InitialAuthState

ClearError(state) == [state EXCEPT !.error = Null]

StartAuthFlowPending(state) == [state EXCEPT !.loading = TRUE, !.error = Null]

StartAuthFlowFulfilled(state, tokens) ==
    [ isAuthenticated |-> TRUE,
      accessToken |-> OrElse(tokens.access_token, Null),
      refreshToken |-> OrElse(tokens.refresh_token, Null),
      expiresAt |-> OrElse(tokens.expiry_date, Null),
      loading |-> FALSE, error |-> Null ]

StartAuthFlowRejected(state, payload) ==
    [state EXCEPT !.isAuthenticated = FALSE, !.loading = FALSE,
                  !.error = OrElse(payload, "Failed to authenticate")]

RefreshAccessTokenPending(state) == [state EXCEPT !.loading = TRUE, !.error = Null]

RefreshAccessTokenFulfilled(state, payload) ==
    [state EXCEPT !.accessToken = payload.accessToken,
                  !.expiresAt = payload.expiresAt,
                  !.loading = FALSE, !.error = Null]

RefreshAccessTokenRejected(state, payload) ==
    [state EXCEPT !.loading = FALSE,
                  !.error = OrElse(payload, "Failed to refresh token")]

LogoutPending(state) == [state EXCEPT !.loading = TRUE]

LogoutFulfilled(state) == InitialAuthState

LogoutRejected(state, payload) ==
    [state EXCEPT !.loading = FALSE, !.error = OrElse(payload, "Failed to logout")]

AuthInit ==
    /\ aAuth = InitialAuthState
    /\ aLast = "@@INIT"

\* the store reduces an action of the slice
Reduce(type, state) ==
    /\ aAuth' = state
    /\ aLast' = type
    /\ UNCHANGED notAuth

DispatchAuthStarted == Reduce("auth/authStarted", AuthStarted(aAuth))

DispatchAuthSucceeded ==
    \E payload \in AuthSucceededPayloads :
        Reduce("auth/authSucceeded", AuthSucceeded(aAuth, payload))

DispatchAuthFailed ==
    \E payload \in {"access_denied"} : Reduce("auth/authFailed", AuthFailed(aAuth, payload))

DispatchTokenRefreshed ==
    \E payload \in TokenRefreshedPayloads :
        Reduce("auth/tokenRefreshed", TokenRefreshed(aAuth, payload))

DispatchLoggedOut == Reduce("auth/loggedOut", LoggedOut(aAuth))

DispatchClearError == Reduce("auth/clearError", ClearError(aAuth))

DispatchStartAuthFlowPending ==
    Reduce("auth/startAuthFlow/pending", StartAuthFlowPending(aAuth))

DispatchStartAuthFlowFulfilled ==
    \E tokens \in OAuthTokenPayloads :
        Reduce("auth/startAuthFlow/fulfilled", StartAuthFlowFulfilled(aAuth, tokens))

DispatchStartAuthFlowRejected ==
    \E payload \in RejectValues :
        Reduce("auth/startAuthFlow/rejected", StartAuthFlowRejected(aAuth, payload))

DispatchRefreshPending ==
    Reduce("auth/refreshAccessToken/pending", RefreshAccessTokenPending(aAuth))

DispatchRefreshFulfilled ==
    \E payload \in TokenRefreshedPayloads :
        Reduce("auth/refreshAccessToken/fulfilled", RefreshAccessTokenFulfilled(aAuth, payload))

DispatchRefreshRejected ==
    \E payload \in RejectValues :
        Reduce("auth/refreshAccessToken/rejected", RefreshAccessTokenRejected(aAuth, payload))

DispatchLogoutPending == Reduce("auth/logout/pending", LogoutPending(aAuth))

DispatchLogoutFulfilled == Reduce("auth/logout/fulfilled", LogoutFulfilled(aAuth))

DispatchLogoutRejected ==
    \E payload \in RejectValues :
        Reduce("auth/logout/rejected", LogoutRejected(aAuth, payload))

NextAuth ==
    \/ DispatchAuthStarted
    \/ DispatchAuthSucceeded
    \/ DispatchAuthFailed
    \/ DispatchTokenRefreshed
    \/ DispatchLoggedOut
    \/ DispatchClearError
    \/ DispatchStartAuthFlowPending
    \/ DispatchStartAuthFlowFulfilled
    \/ DispatchStartAuthFlowRejected
    \/ DispatchRefreshPending
    \/ DispatchRefreshFulfilled
    \/ DispatchRefreshRejected
    \/ DispatchLogoutPending
    \/ DispatchLogoutFulfilled
    \/ DispatchLogoutRejected

(***************************************************************************)
(* The calendar slice and the tasks slice: an entity map (events, tasks),  *)
(* the list of ids shown (eventIds, taskIds), loading, error, lastFetch    *)
(* and dateRange.  The tasks slice is the calendar slice with one more     *)
(* thunk, completeTask; the reducers of both are modelled once.            *)
(***************************************************************************)
Slices == {"calendar", "tasks"}

\* the thunks of a slice
Thunks(slice) ==
    {"fetch", "create", "update", "delete"} \cup
        (IF slice = "tasks" THEN {"complete"} ELSE {})

EntityIds == {"x", "y"}

\* an event or a task as the facade returns it
Entities == [id : EntityIds, title : {"v1", "v2"}]

\* the longest id list the model lets createX.fulfilled grow
MaxIdList == 3

\* the longest array a fulfilled fetch carries
MaxFetched == 2

FetchedPayloads == UNION {[1..n -> Entities] : n \in 0..MaxFetched}

\* Record<string, Entity>: the map from the ids it holds to the entities
EmptyRecord == [id \in {} |-> CHOOSE e \in Entities : TRUE]

\* record[entity.id] = entity
Put(record, entity) ==
    [id \in DOMAIN record \cup {entity.id} |->
        IF id = entity.id THEN entity ELSE record[id]]

\* delete record[id]
Delete(record, id) == [k \in DOMAIN record \ {id} |-> record[k]]

\* ids.filter((id) => id !== removed)
FilterOut(ids, removed) == SelectSeq(ids, LAMBDA id : id # removed)

InitialSliceState ==
    [ entities |-> EmptyRecord, ids |-> <<>>, loading |-> FALSE, error |-> Null,
      lastFetch |-> Null, dateRange |-> Null ]

\* clearEvents, clearTasks
ClearEntities(state) ==
    [state EXCEPT !.entities = EmptyRecord, !.ids = <<>>, !.error = Null]

\* X.pending
ThunkPending(state) == [state EXCEPT !.loading = TRUE, !.error = Null]

\* the message of X.rejected without a payload
FailedTo(slice, thunk) ==
    IF slice = "calendar"
    THEN CASE thunk = "fetch" -> "Failed to fetch events"
           [] thunk = "create" -> "Failed to create event"
           [] thunk = "update" -> "Failed to update event"
           [] thunk = "delete" -> "Failed to delete event"
    ELSE CASE thunk = "fetch" -> "Failed to fetch tasks"
           [] thunk = "create" -> "Failed to create task"
           [] thunk = "update" -> "Failed to update task"
           [] thunk = "delete" -> "Failed to delete task"
           [] thunk = "complete" -> "Failed to complete task"

\* X.rejected
ThunkRejected(state, slice, thunk, payload) ==
    [state EXCEPT !.loading = FALSE, !.error = OrElse(payload, FailedTo(slice, thunk))]

RECURSIVE IndexById(_, _, _)
\* payload.forEach((e) => { entities[e.id] = e; ids.push(e.id) }) from index i
IndexById(payload, i, acc) ==
    IF i > Len(payload) THEN acc
    ELSE IndexById(payload, i + 1,
                   [ entities |-> Put(acc.entities, payload[i]),
                     ids |-> Append(acc.ids, payload[i].id) ])

\* fetchX.fulfilled
FetchFulfilled(state, payload, range, now) ==
    LET indexed == IndexById(payload, 1, [entities |-> EmptyRecord, ids |-> <<>>])
    IN  [state EXCEPT !.loading = FALSE, !.lastFetch = now, !.dateRange = range,
                      !.entities = indexed.entities, !.ids = indexed.ids]

\* createX.fulfilled
CreateFulfilled(state, entity) ==
    [state EXCEPT !.loading = FALSE,
                  !.entities = Put(state.entities, entity),
                  !.ids = Append(state.ids, entity.id)]

\* updateX.fulfilled, completeTask.fulfilled
UpdateFulfilled(state, entity) ==
    [state EXCEPT !.loading = FALSE, !.entities = Put(state.entities, entity)]

\* deleteX.fulfilled
DeleteFulfilled(state, id) ==
    [state EXCEPT !.loading = FALSE,
                  !.entities = Delete(state.entities, id),
                  !.ids = FilterOut(state.ids, id)]

\* what the selectors read of an id the map does not hold
NoEntity == [id |-> Undefined, title |-> Undefined]

\* selectAllEvents, selectAllTasks: ids.map((id) => entities[id])
SelectAll(state) ==
    [i \in 1..Len(state.ids) |->
        IF state.ids[i] \in DOMAIN state.entities
        THEN state.entities[state.ids[i]] ELSE NoEntity]

SliceInit ==
    /\ nSlice \in Slices
    /\ nState = InitialSliceState

SliceBecomes(state) ==
    /\ nState' = state
    /\ UNCHANGED <<nSlice>>
    /\ UNCHANGED notSlice

DispatchClear == SliceBecomes(ClearEntities(nState))

DispatchSliceClearError == SliceBecomes([nState EXCEPT !.error = Null])

DispatchPending == \E thunk \in Thunks(nSlice) : SliceBecomes(ThunkPending(nState))

DispatchRejected ==
    \E thunk \in Thunks(nSlice), payload \in RejectValues :
        SliceBecomes(ThunkRejected(nState, nSlice, thunk, payload))

DispatchFetchFulfilled ==
    \E payload \in FetchedPayloads :
        SliceBecomes(FetchFulfilled(nState, payload, "range", "now"))

DispatchCreateFulfilled ==
    /\ Len(nState.ids) < MaxIdList
    /\ \E entity \in Entities : SliceBecomes(CreateFulfilled(nState, entity))

DispatchUpdateFulfilled ==
    \E entity \in Entities : SliceBecomes(UpdateFulfilled(nState, entity))

DispatchCompleteFulfilled ==
    /\ nSlice = "tasks"
    /\ \E entity \in Entities : SliceBecomes(UpdateFulfilled(nState, entity))

DispatchDeleteFulfilled ==
    \E id \in EntityIds : SliceBecomes(DeleteFulfilled(nState, id))

NextSlice ==
    \/ DispatchClear
    \/ DispatchSliceClearError
    \/ DispatchPending
    \/ DispatchRejected
    \/ DispatchFetchFulfilled
    \/ DispatchCreateFulfilled
    \/ DispatchUpdateFulfilled
    \/ DispatchCompleteFulfilled
    \/ DispatchDeleteFulfilled

(***************************************************************************)
(* ServiceContainer: the factories and the instances by name, and get()    *)
(* around its await of service.initialize().  An instance is a number:     *)
(* the n-th object a factory made is n, the object handed to               *)
(* registerSingleton is GivenInstance, 0 is no instance.                   *)
(***************************************************************************)
ServiceNames == {"calendar", "tasks"}

\* how many calls of get the model follows
MaxGets == 3

GetIds == 1..MaxGets

GivenInstance == -1

IdleGet ==
    [ name     |-> "",
      pc       |-> "idle",     \* idle | initializing | resolved | rejected
      instance |-> 0,          \* the service of this call
      made     |-> FALSE ]     \* this call invoked the factory

ContainerInit ==
    /\ kFactories = {}
    /\ kServices = [n \in ServiceNames |-> 0]
    /\ kCreated = 0
    /\ kGets = [g \in GetIds |-> IdleGet]
    /\ kReset = {}
    /\ kDisposing = {}

\* register(name, factory)
Register(name) ==
    /\ kFactories' = kFactories \cup {name}
    /\ UNCHANGED <<kServices, kCreated, kGets, kReset, kDisposing, notContainer>>

\* registerSingleton(name, instance)
RegisterSingleton(name) ==
    /\ kServices' = [kServices EXCEPT ![name] = GivenInstance]
    /\ UNCHANGED <<kFactories, kCreated, kGets, kReset, kDisposing, notContainer>>

\* get(name) up to its await: the stored service is returned, or the call
\* throws for want of a factory, or the factory makes a service and
\* initialize() is awaited
ContainerGet(g, name) ==
    /\ kGets[g].pc = "idle"
    /\ \A h \in 1..(g - 1) : kGets[h].pc # "idle"
    /\ LET call == [IdleGet EXCEPT !.name = name] IN
       IF kServices[name] # 0
       THEN /\ kGets' = [kGets EXCEPT ![g] =
                  [call EXCEPT !.pc = "resolved", !.instance = kServices[name]]]
            /\ UNCHANGED kCreated
       ELSE IF name \notin kFactories
       THEN /\ kGets' = [kGets EXCEPT ![g] = [call EXCEPT !.pc = "rejected"]]
            /\ UNCHANGED kCreated
       ELSE /\ kGets' = [kGets EXCEPT ![g] =
                  [call EXCEPT !.pc = "initializing", !.instance = kCreated + 1,
                               !.made = TRUE]]
            /\ kCreated' = kCreated + 1
    /\ UNCHANGED <<kFactories, kServices, kReset, kDisposing, notContainer>>

\* service.initialize() resolves: the service is stored under the name and
\* returned
ServiceInitialized(g) ==
    /\ kGets[g].pc = "initializing"
    /\ kServices' = [kServices EXCEPT ![kGets[g].name] = kGets[g].instance]
    /\ kGets' = [kGets EXCEPT ![g].pc = "resolved"]
    /\ UNCHANGED <<kFactories, kCreated, kReset, kDisposing, notContainer>>

\* service.initialize() rejects: get rejects and nothing is stored
ServiceInitializeFails(g) ==
    /\ kGets[g].pc = "initializing"
    /\ kGets' = [kGets EXCEPT ![g].pc = "rejected"]
    /\ UNCHANGED <<kFactories, kServices, kCreated, kReset, kDisposing, notContainer>>

\* dispose(name) up to its await of service.dispose(); one call per name is
\* followed at a time
ContainerDispose(name) ==
    /\ kServices[name] # 0
    /\ name \notin kDisposing
    /\ kDisposing' = kDisposing \cup {name}
    /\ kReset' = kReset \cup {name}
    /\ UNCHANGED <<kFactories, kServices, kCreated, kGets, notContainer>>

\* service.dispose() has settled: this.services.delete(name)
ContainerDisposeSettles(name) ==
    /\ name \in kDisposing
    /\ kDisposing' = kDisposing \ {name}
    /\ kServices' = [kServices EXCEPT ![name] = 0]
    /\ UNCHANGED <<kFactories, kCreated, kGets, kReset, notContainer>>

\* clear(): both maps are emptied
ContainerClear ==
    /\ kServices' = [n \in ServiceNames |-> 0]
    /\ kFactories' = {}
    /\ kReset' = ServiceNames
    /\ UNCHANGED <<kCreated, kGets, kDisposing, notContainer>>

NextContainer ==
    \/ \E name \in ServiceNames : Register(name)
    \/ \E name \in ServiceNames : RegisterSingleton(name)
    \/ \E g \in GetIds, name \in ServiceNames : ContainerGet(g, name)
    \/ \E g \in GetIds : ServiceInitialized(g)
    \/ \E g \in GetIds : ServiceInitializeFails(g)
    \/ \E name \in ServiceNames : ContainerDispose(name)
    \/ \E name \in ServiceNames : ContainerDisposeSettles(name)
    \/ ContainerClear

(***************************************************************************)
(* The thunks of a slice.  createAsyncThunk dispatches X.pending when the  *)
(* thunk is called and X.fulfilled or X.rejected when its payload creator  *)
(* has settled; thunks called before others have settled overlap.          *)
(***************************************************************************)
AuthThunks == {"startAuthFlow", "refreshAccessToken", "logout"}

ThunksOf(slice) == IF slice = "auth" THEN AuthThunks ELSE Thunks(slice)

\* how many thunks the model dispatches on the slice
MaxThunks == 3

\* the reducer case of X.pending
PendingOf(slice, thunk, state) ==
    IF slice # "auth" THEN ThunkPending(state)
    ELSE CASE thunk = "startAuthFlow" -> StartAuthFlowPending(state)
           [] thunk = "refreshAccessToken" -> RefreshAccessTokenPending(state)
           [] thunk = "logout" -> LogoutPending(state)

\* what X.fulfilled can carry
FulfilledPayloads(slice, thunk) ==
    IF slice = "auth"
    THEN CASE thunk = "startAuthFlow" -> OAuthTokenPayloads
           [] thunk = "refreshAccessToken" -> TokenRefreshedPayloads
           [] thunk = "logout" -> {Undefined}
    ELSE CASE thunk = "fetch" -> FetchedPayloads
           [] thunk = "delete" -> EntityIds
           [] OTHER -> Entities

\* the reducer case of X.fulfilled
FulfilledOf(slice, thunk, state, payload) ==
    IF slice = "auth"
    THEN CASE thunk = "startAuthFlow" -> StartAuthFlowFulfilled(state, payload)
           [] thunk = "refreshAccessToken" -> RefreshAccessTokenFulfilled(state, payload)
           [] thunk = "logout" -> LogoutFulfilled(state)
    ELSE CASE thunk = "fetch" -> FetchFulfilled(state, payload, "range", "now")
           [] thunk = "create" -> CreateFulfilled(state, payload)
           [] thunk = "delete" -> DeleteFulfilled(state, payload)
           [] OTHER -> UpdateFulfilled(state, payload)

\* the reducer case of X.rejected
RejectedOf(slice, thunk, state, payload) ==
    IF slice # "auth" THEN ThunkRejected(state, slice, thunk, payload)
    ELSE CASE thunk = "startAuthFlow" -> StartAuthFlowRejected(state, payload)
           [] thunk = "refreshAccessToken" -> RefreshAccessTokenRejected(state, payload)
           [] thunk = "logout" -> LogoutRejected(state, payload)

InitialStateOf(slice) == IF slice = "auth" THEN InitialAuthState ELSE InitialSliceState

\* the thunks dispatched and not settled
PendingThunks == {thunk \in DOMAIN hPending : hPending[thunk] > 0}

ThunkInit ==
    /\ hSlice \in Slices \cup {"auth"}
    /\ hState = InitialStateOf(hSlice)
    /\ hPending = [thunk \in ThunksOf(hSlice) |-> 0]
    /\ hDispatched = 0

\* dispatch(X(arg)): X.pending is reduced and the payload creator starts
ThunkCalled(thunk) ==
    /\ hDispatched < MaxThunks
    /\ thunk \in ThunksOf(hSlice)
    /\ hDispatched' = hDispatched + 1
    /\ hPending' = [hPending EXCEPT ![thunk] = @ + 1]
    /\ hState' = PendingOf(hSlice, thunk, hState)
    /\ UNCHANGED <<hSlice, notThunk>>

\* the payload creator of a pending X returns: X.fulfilled is reduced
ThunkFulfills(thunk) ==
    /\ thunk \in PendingThunks
    /\ hPending' = [hPending EXCEPT ![thunk] = @ - 1]
    /\ \E payload \in FulfilledPayloads(hSlice, thunk) :
          hState' = FulfilledOf(hSlice, thunk, hState, payload)
    /\ UNCHANGED <<hSlice, hDispatched, notThunk>>

\* the payload creator of a pending X rejects: X.rejected is reduced
ThunkRejects(thunk) ==
    /\ thunk \in PendingThunks
    /\ hPending' = [hPending EXCEPT ![thunk] = @ - 1]
    /\ \E payload \in RejectValues :
          hState' = RejectedOf(hSlice, thunk, hState, payload)
    /\ UNCHANGED <<hSlice, hDispatched, notThunk>>

NextThunks ==
    \/ \E thunk \in ThunksOf(hSlice) : ThunkCalled(thunk)
    \/ \E thunk \in ThunksOf(hSlice) : ThunkFulfills(thunk)
    \/ \E thunk \in ThunksOf(hSlice) : ThunkRejects(thunk)

(***************************************************************************)
(* Claims about OAuthServer                                                *)
(***************************************************************************)
FlowSettled(flow) == flow.promise \in {"resolved", "rejected"}

\* C7: whenever the promise of a flow resolves or rejects, and startOAuthFlow
\* was not called again while it was pending (concurrent invocations are not
\* supported), the listener created for the flow has been closed exactly
\* once, this.server is null and the port is free for a second flow.
C7_ListenerClosedOnceAtSettle ==
    \A f \in FlowIds :
        (FlowSettled(oFlows[f]) /\ ~oFlows[f].overlapped) =>
            /\ oFlows[f].atSettle.closes = 1
            /\ oFlows[f].atSettle.server = 0
            /\ oFlows[f].atSettle.portFree
            /\ oFlows[f].closes = 1

\* a flow resolved with the tokens, and the next flow has bound the port
C7_Witness ==
    /\ oFlows[1].promise = "resolved" /\ ~oFlows[1].overlapped
    /\ oFlows[1].atSettle = [server |-> 0, closes |-> 1, portFree |-> TRUE]
    /\ oFlows[2].listener = "listening" /\ oPort = 2

\* the requests of a flow that reached /callback, in order
Callbacks(flow) == SelectSeq(flow.requests, LAMBDA r : r.path = "/callback")

ExchangesStartedBy(flow) ==
    Cardinality({i \in 1..Len(flow.requests) : flow.requests[i].did = "exchange"})

\* C8: a /callback request that carries an error is answered by rejecting
\* with 'Authorization failed: <error>' and starts no exchange, also when it
\* carries a code; one that carries neither is answered by rejecting with
\* 'No authorization code received'; one that carries a code and no error
\* starts the exchange of the code.  The first such request of a flow settles
\* the promise in the first two cases; in the third, when it is the only
\* /callback request of the flow, the promise stays pending until the exchange
\* ends and then resolves with the token response or rejects with the
\* exchange's error.  (A parameter without a value counts as absent.)
C8_CallbackOutcomes ==
    \A f \in FlowIds :
        LET flow == oFlows[f]
            cbs  == Callbacks(flow)
        IN  /\ flow.exchanges = ExchangesStartedBy(flow)
            /\ \A i \in 1..Len(cbs) :
                  /\ Truthy(cbs[i].error) => cbs[i].did = "denied"
                  /\ (~Truthy(cbs[i].error) /\ ~Truthy(cbs[i].code)) => cbs[i].did = "nocode"
                  /\ (~Truthy(cbs[i].error) /\ Truthy(cbs[i].code)) => cbs[i].did = "exchange"
            /\ Len(cbs) >= 1 =>
                  /\ Truthy(cbs[1].error) =>
                        /\ flow.promise = "rejected"
                        /\ flow.reason = "Authorization failed: " \o cbs[1].error
                        /\ Len(cbs) = 1 => flow.exchanges = 0
                  /\ (~Truthy(cbs[1].error) /\ ~Truthy(cbs[1].code)) =>
                        /\ flow.promise = "rejected"
                        /\ flow.reason = "No authorization code received"
                  /\ (~Truthy(cbs[1].error) /\ Truthy(cbs[1].code) /\ Len(cbs) = 1) =>
                        /\ flow.exchanges = 1
                        /\ \/ flow.promise = "pending" /\ flow.pending = 1
                           \/ flow.promise = "resolved" /\ flow.reason = "tokens"
                                 /\ flow.pending = 0
                           \/ flow.promise = "rejected" /\ flow.reason = "exchange error"
                                 /\ flow.pending = 0

\* one flow denied although its callback carried a code, the next resolved
C8_Witness ==
    /\ Len(Callbacks(oFlows[1])) = 1
    /\ Callbacks(oFlows[1])[1].error = "access_denied"
    /\ Callbacks(oFlows[1])[1].code = "4/abc"
    /\ oFlows[1].promise = "rejected"
    /\ oFlows[1].reason = "Authorization failed: access_denied"
    /\ oFlows[1].exchanges = 0
    /\ Len(Callbacks(oFlows[2])) = 1
    /\ Callbacks(oFlows[2])[1].did = "exchange"
    /\ oFlows[2].promise = "resolved" /\ oFlows[2].reason = "tokens"

\* C21: for one startOAuthFlow invocation only the first request to /callback
\* determines the outcome: a later request to /callback does nothing, the
\* exchange of the code is posted at most once, and what the promise settles
\* with is what the first request led to.
C21_OnlyFirstCallbackCounts ==
    \A f \in FlowIds :
        LET flow == oFlows[f]
            cbs  == Callbacks(flow)
        IN  /\ flow.exchanges <= 1
            /\ \A i \in 2..Len(cbs) : cbs[i].did = "ignored"
            /\ (Len(cbs) >= 1 /\ cbs[1].did = "exchange" /\ FlowSettled(flow)) =>
                  flow.reason \in {"tokens", "exchange error"}

\* the listener of flow f holds or is about to serve the port
StillBound(f) == oFlows[f].listener \in {"bound", "listening"}

\* C33: every listener startOAuthFlow creates can still be closed by its
\* callback or by cleanup(), also when startOAuthFlow is called again before
\* the flow before it has settled: a listener that is still bound is the one
\* this.server refers to.
C33_NoListenerIsLost == \A f \in FlowIds : StillBound(f) => oServer = f

\* what happens to a listener this.server no longer refers to: no step
\* closes it
C33_LostListenerStaysBound ==
    [][\A f \in FlowIds : (StillBound(f) /\ oServer # f) => StillBound(f)']_vars

\* the 'error' event of the listener of flow f has been handled
BindErrorHandled(f) == oFlows[f].bindError = "thrown"

\* C34: if the listener cannot be bound, the promise startOAuthFlow returned
\* eventually rejects and the listener is closed; the flow does not stay
\* pending forever after the 'error' event.
C34_BindErrorRejects ==
    \A f \in FlowIds :
        BindErrorHandled(f) ~>
            (oFlows[f].promise = "rejected" /\ oFlows[f].listener = "closed")

\* what happens instead: after the 'error' event the promise stays pending
C34_StaysPending ==
    [][\A f \in FlowIds :
          (BindErrorHandled(f) /\ oFlows[f].promise = "pending") =>
              oFlows'[f].promise = "pending"]_vars

(***************************************************************************)
(* Claims about the caching facades                                        *)
(***************************************************************************)
\* a fetch that reaches the API on a cache miss: every fetchEvents, and a
\* fetchTasks whose options carry a startDate
RangeFetch(op) == op.type = "fetch" /\ op.name # "none"

\* a fetch that follows a stored fetch of the same key, with no clear of the
\* cache and no other store of the key between the two
SecondOfPair(op) == RangeFetch(op) /\ op.pairAge >= 0

\* C4: for two successful fetches of the same key with no mutation and no
\* clearCache between them, the two calls issue exactly one API call when
\* the second is called within the TTL of the first one's store (it is
\* served from the cache), and exactly two when it is called after the TTL
\* has expired (it misses and calls the API once).
C4_CacheRoundTrip ==
    \A p \in FacadeOpIds :
        LET op == fOps[p] IN
        SecondOfPair(op) =>
            /\ op.firstCalls = 1
            /\ op.pairAge < CACHE_TTL =>
                  /\ op.pc = "done" /\ op.result = "value" /\ op.hit
                  /\ op.firstCalls + op.apiCalls = 1
            /\ op.pairAge > CACHE_TTL =>
                  /\ ~op.hit
                  /\ op.firstCalls + op.apiCalls = 2
                  /\ op.pc = "done" => op.result = "value"

\* both cases at once: a second fetch served from the cache half a TTL after
\* the first, and a later fetch of the same key that went to the API
C4_Witness ==
    \E p, q \in FacadeOpIds :
        /\ SecondOfPair(fOps[p]) /\ fOps[p].pairAge = 30000
        /\ fOps[p].hit /\ fOps[p].firstCalls + fOps[p].apiCalls = 1
        /\ SecondOfPair(fOps[q]) /\ fOps[q].pairAge > CACHE_TTL
        /\ fOps[q].key = fOps[p].key
        /\ fOps[q].pc = "done" /\ fOps[q].firstCalls + fOps[q].apiCalls = 2

\* a fetch called after a successful mutation cleared an entry of its key,
\* and the first such fetch
AfterMutation(op) == op.type = "fetch" /\ op.clearedAge >= 0

\* C5 as stated: after a successful mutation the next fetch for any key that
\* was cached before it misses the cache and calls the API again.
C5_NextFetchAlwaysMisses ==
    \A p \in FacadeOpIds :
        LET op == fOps[p] IN
        AfterMutation(op) => ~op.hit /\ (RangeFetch(op) => op.apiCalls = 1)

\* C5, amended: a successful mutation leaves no entry of the cache behind,
\* whatever its key and its age; and the next fetch for a key that was cached
\* before the mutation misses and calls the API again, even when the entry
\* was younger than the TTL, unless a fetch of that key that was pending when
\* the mutation finished has stored its result since.
C5_MutationClearsWholeCache ==
    /\ \A e \in fCleared : ~e.restored => ~Cached(fCache, e.key)
    /\ \A p \in FacadeOpIds :
          LET op == fOps[p] IN
          (AfterMutation(op) /\ ~op.restored) =>
              ~op.hit /\ (RangeFetch(op) => op.apiCalls = 1)

\* a mutation cleared two entries, and the next fetch of one of them, called
\* while the entry would still have been young, went to the API
C5_Witness ==
    \E p, q \in FacadeOpIds :
        /\ fOps[q].type = "mutation" /\ fOps[q].pc = "done" /\ fOps[q].result = "value"
        /\ AfterMutation(fOps[p]) /\ ~fOps[p].restored /\ RangeFetch(fOps[p])
        /\ fOps[p].clearedAge < CACHE_TTL
        /\ ~fOps[p].hit /\ fOps[p].apiCalls = 1
        /\ \E e \in fCleared : e.key # fOps[p].key /\ ~Cached(fCache, e.key)

\* a fetch whose API call is pending while a mutation has completed (and
\* cleared the cache) since the call was issued
Overtaken(p) ==
    /\ fOps[p].type = "fetch"
    /\ fOps[p].pc = "inflight"
    /\ fOps[p].data < fServer

\* a fetch is called for a key whose entry holds data read before the last
\* mutation and is younger than the TTL
StaleLookup(q) ==
    /\ fStarted' = fStarted + 1
    /\ fOps'[q] # fOps[q]
    /\ fOps'[q].type = "fetch"
    /\ \E e \in fCache :
          /\ e.key = fOps'[q].key
          /\ e.data # EmptyList
          /\ e.data < fServer
          /\ fNow - e.timestamp < CACHE_TTL

\* C19: a fetch that missed the cache and is waiting for the API when a
\* mutation completes and clears the cache stores its result under its key
\* when it completes, with the list its call read before the mutation; and a
\* fetch of a key whose entry holds such a list and is younger than the TTL
\* returns that list without calling the API.
C19_InFlightFetchRestoresStaleData ==
    [][\A p \in FacadeOpIds :
          /\ (Overtaken(p) /\ fOps'[p].pc = "done") =>
                /\ fOps'[p].data \in {fOps[p].data, EmptyList}
                /\ [key |-> fOps[p].key, data |-> fOps'[p].data, timestamp |-> fNow]
                      \in fCache'
                /\ \A e \in fCache' : e.key = fOps[p].key => e.data = fOps'[p].data
          /\ StaleLookup(p) =>
                /\ fOps'[p].pc = "done"
                /\ fOps'[p].hit
                /\ fOps'[p].apiCalls = 0
                /\ fOps'[p].result = "value"
                /\ \E e \in fCache : e.key = fOps'[p].key /\ fOps'[p].data = e.data
                /\ fOps'[p].data < fServer]_vars

\* the whole scenario: an entry cleared by a mutation, stored again by a fetch
\* that was pending, and then served to a later fetch after the server moved
C19_Witness ==
    \E p \in FacadeOpIds :
        /\ AfterMutation(fOps[p])
        /\ fOps[p].restored
        /\ fOps[p].hit
        /\ fOps[p].apiCalls = 0
        /\ fOps[p].data # EmptyList
        /\ fOps[p].data < fServer
        /\ fServer = 1

\* a fetch is called in this step and takes record q (clearCache and dispose
\* also count as operations: they change no record and leave the cache empty)
FetchCalled(q) ==
    /\ CanStart(q)
    /\ fStarted' = fStarted + 1
    /\ fOps'[q].type = "fetch"
    /\ fOps' # fOps \/ fCache' # {}

\* the entry the cache holds for the key of the fetch being called has an age
\* in the given set
LookedUpAged(q, Ages(_)) ==
    \E e \in fCache : e.key = fOps'[q].key /\ Ages(fNow - e.timestamp)

\* C23 as stated: an entry is returned only while its age is strictly less
\* than CACHE_TTL.
C23_ReturnedOnlyBelowTTL ==
    [][\A q \in FacadeOpIds :
          (FetchCalled(q) /\ fOps'[q].hit) =>
              LookedUpAged(q, LAMBDA age : age < CACHE_TTL)]_vars

\* C23: a fetch is served from the cache, without a call of the API and with
\* the data of the entry, exactly when the cache holds an entry for its key
\* whose age is at most CACHE_TTL; an entry whose age has passed the TTL is
\* not returned and is removed by the lookup.
C23_ReturnedWhileAtMostTTL ==
    [][\A q \in FacadeOpIds :
          FetchCalled(q) =>
              /\ fOps'[q].hit <=> LookedUpAged(q, LAMBDA age : age <= CACHE_TTL)
              /\ fOps'[q].hit =>
                    /\ fOps'[q].apiCalls = 0
                    /\ fOps'[q].pc = "done"
                    /\ fOps'[q].data = Entry(fCache, fOps'[q].key).data
                    /\ fCache' = fCache
              /\ LookedUpAged(q, LAMBDA age : age > CACHE_TTL) =>
                    /\ ~fOps'[q].hit
                    /\ \A e \in fCache' : e.key = fOps'[q].key => e.timestamp = fNow
                    /\ fOps'[q].name # "none" => ~Cached(fCache', fOps'[q].key)]_vars

\* a fetch was served from an entry whose age was exactly the TTL
C23_Witness ==
    \E p \in FacadeOpIds :
        /\ fOps[p].type = "fetch"
        /\ fOps[p].hit
        /\ fOps[p].pairAge = CACHE_TTL
        /\ fOps[p].apiCalls = 0

\* a fetch is called for a key while another fetch of that key is waiting for
\* the API and nothing is stored under the key
SecondCall(q) ==
    /\ FetchCalled(q)
    /\ InFlightFor(fOps'[q].key) # {}
    /\ ~Cached(fCache, fOps'[q].key)

\* the API call of fetch q resolves in this step
FetchCompletes(q) ==
    /\ fOps[q].type = "fetch"
    /\ fOps[q].pc = "inflight"
    /\ fOps'[q].pc = "done"

\* C25: a fetch called while another fetch with the same cache key is still
\* waiting for the API misses the cache and issues its own API call, and the
\* first keeps waiting for its own (no coalescing); each of them completes
\* with a value when its call resolves, whatever the other has done, and
\* stores its result under the key, so that the cache afterwards holds the
\* result of whichever completed last.
C25_NoCoalescing ==
    [][\A q \in FacadeOpIds :
          /\ SecondCall(q) =>
                /\ ~fOps'[q].hit
                /\ fOps'[q].pc = "inflight"
                /\ fOps'[q].apiCalls = 1
                /\ \A p \in InFlightFor(fOps'[q].key) :
                      /\ p # q
                      /\ fOps'[p] = fOps[p]
                      /\ fOps[p].apiCalls = 1
                      /\ ~fOps[p].hit
          /\ FetchCompletes(q) =>
                /\ fOps'[q].result = "value"
                /\ fOps'[q].apiCalls = 1
                /\ Entry(fCache', fOps[q].key) =
                      [key |-> fOps[q].key, data |-> fOps'[q].data, timestamp |-> fNow]
                /\ \A e \in fCache' : e.key = fOps[q].key => e.data = fOps'[q].data
                /\ \A p \in InFlightFor(fOps[q].key) \ {q} : fOps'[p] = fOps[p]]_vars

\* two fetches of one key are the only operations called, no time has
\* passed, each went to the API and both have completed: the second was
\* called before the first resolved
C25_Witness ==
    /\ fStarted = 2
    /\ fTicks = 0
    /\ \A p \in {1, 2} :
          /\ fOps[p].type = "fetch"
          /\ fOps[p].pc = "done"
          /\ ~fOps[p].hit
          /\ fOps[p].apiCalls = 1
    /\ fOps[1].key = fOps[2].key
    /\ fOps[1].data # fOps[2].data
    /\ Cached(fCache, fOps[1].key)

\* the request of fetch q failed: its API call ends without the list it read
RequestFailed(q) ==
    /\ FetchCompletes(q)
    /\ fOps[q].data # EmptyList
    /\ fOps'[q].data = EmptyList

\* C31: when the Google request of a range fetch fails, the facade stores no
\* cache entry for the range and the fetch reports the failure (an empty
\* list is never cached in place of a failed fetch).
C31_FailedFetchCachesNothing ==
    [][\A q \in FacadeOpIds :
          RequestFailed(q) =>
             /\ fOps'[q].result = "ServiceError"
             /\ fCache' = fCache]_vars

(***************************************************************************)
(* Claims about GoogleCalendarAPI                                          *)
(***************************************************************************)
Got401(c) == Len(c.answers) >= 1 /\ c.answers[1] = 401

PostsBy(p) == Cardinality({i \in 1..Len(tokenPosts) : tokenPosts[i].by = p})

\* C3: a request answered 401 calls refreshAccessToken exactly once; once that
\* refresh has resolved the same url/method/body has been re-sent exactly once,
\* carrying the access token the refresh obtained, and it is not re-sent
\* before; when the re-sent request fails (a second 401 included) nothing more
\* is refreshed or sent and makeRequest throws that very failure.
C3_One401RefreshAndResend ==
    \A p \in ApiCallIds :
        LET c == calls[p] IN
        Got401(c) =>
            /\ c.refreshCalls = 1
            /\ PostsBy(p) <= 1
            /\ Len(c.sends) = IF c.refreshed THEN 2 ELSE 1
            /\ c.refreshed =>
                  /\ c.sends[2].req = c.sends[1].req
                  /\ c.granted.access_token # 0 =>
                        c.sends[2].token = c.granted.access_token
            /\ (Len(c.answers) = 2 /\ c.answers[2] # 200) =>
                  /\ c.pc = "done"
                  /\ c.thrown = HttpError(c.answers[2], "resend")

C3_Witness ==
    \E p \in ApiCallIds :
        /\ calls[p].answers = <<401, 401>>
        /\ calls[p].granted.access_token # 0
        /\ calls[p].sends[2].token # calls[p].sends[1].token
        /\ calls[p].pc = "done"

\* C6 (as the spec states it): with clientId and clientSecret set and no
\* access token, isConfigured() is true and a fetch operation sends nothing
\* and fails with the 'No access token available' error.
C6_FetchWithoutTokenFails ==
    \A p \in ApiCallIds :
        LET c == calls[p] IN
        (c.kind \in FetchKinds /\ c.thrown = LocalError("No access token available")) =>
            /\ IsConfigured(credentials)
            /\ c.sends = <<>>
            /\ c.result = "throws"

\* refreshAccessToken without a refresh token throws 'No refresh token
\* available' and posts nothing to the token endpoint; when its token request
\* fails, that failure is what is thrown, the request was posted once and
\* nothing is re-sent
C9_State ==
    \A p \in ApiCallIds :
        LET c == calls[p] IN
        /\ c.thrown = LocalError("No refresh token available") =>
              /\ PostsBy(p) = 0
              /\ Len(c.sends) = 1
        /\ c.tokenAnswer \in TokenFailures =>
              /\ c.thrown = HttpError(c.tokenAnswer, "token")
              /\ PostsBy(p) = 1
              /\ Len(c.sends) = 1

RefreshFailedStep ==
    \E p \in ApiCallIds :
        /\ calls[p].pc \in {"sent", "refreshing"}
        /\ calls'[p].pc = "done"
        /\ calls'[p].refreshCalls = 1
        /\ ~calls'[p].refreshed
        /\ calls'[p].thrown.origin \in {"local", "token"}

\* C9: a refresh that fails, for want of a refresh token or because the token
\* request failed, throws that error after at most one POST to the token
\* endpoint and no re-send (C9_State), and the failing step changes neither
\* credentials.accessToken nor credentials.refreshToken nor the settings, and
\* does not call onTokensUpdated.
C9_FailedRefreshKeepsTokens ==
    /\ []C9_State
    /\ [][RefreshFailedStep =>
            /\ credentials' = credentials
            /\ settings' = settings
            /\ tokensUpdated' = tokensUpdated]_vars

C9_Witness ==
    \E p \in ApiCallIds :
        /\ calls[p].tokenAnswer = 400
        /\ calls[p].pc = "done"
        /\ credentials.refreshToken = 1
        /\ credentials.accessToken = 1

\* C10 (as the spec states it): every token response with an access_token is
\* handed to onTokensUpdated once, credentials.accessToken is the access_token
\* of the last such response, and when that response carries a rotated
\* refresh_token, credentials.refreshToken (what the next refresh will send) is
\* that rotated token.
C10_RefreshReplacesTokens ==
    /\ Len(tokensUpdated) =
          Cardinality({p \in ApiCallIds : calls[p].granted.access_token # 0})
    /\ tokensUpdated # <<>> =>
          LET last == tokensUpdated[Len(tokensUpdated)] IN
          /\ credentials.accessToken = last.access_token
          /\ last.refresh_token # 0 => credentials.refreshToken = last.refresh_token

\* the part of C10 that the code does satisfy
C10_AccessTokenReplaced ==
    /\ Len(tokensUpdated) =
          Cardinality({p \in ApiCallIds : calls[p].granted.access_token # 0})
    /\ tokensUpdated # <<>> =>
          credentials.accessToken = tokensUpdated[Len(tokensUpdated)].access_token

\* the operations whose token refresh is waiting for the token endpoint
Refreshing == {p \in ApiCallIds : calls[p].pc = "refreshing"}

\* C32: when several requests of one GoogleCalendarAPI instance are answered
\* 401 while they overlap, no two token refreshes are in flight at the same
\* time.
C32_OneRefreshInFlight == Cardinality(Refreshing) <= 1

(***************************************************************************)
(* Claims about getTasksForDate and getTasksForDateRange                   *)
(***************************************************************************)
\* the request for the task lists succeeded and the operation has settled
TasksSettled == tPc = "done" /\ tSlots[1] # NotAsked

\* 00:00:00.000 and 23:59:59.999 of a calendar day, in a zone
StartOfDay(day, zone) == day * DayTicks - zone

EndOfDay(day, zone) == (day + 1) * DayTicks - 1 - zone

\* the tasks of the lists whose request succeeded that have no due value or
\* whose due lies in [lo, hi], list after list
TasksWithin(lo, hi) ==
    LET Kept(i) ==
          IF tSlots[i].st = "ok"
          THEN SelectSeq(tLists[i].tasks,
                         LAMBDA task : \/ ~task.due.defined
                                       \/ /\ lo <= task.due.instant
                                          /\ task.due.instant <= hi)
          ELSE <<>>
    IN  Kept(1) \o Kept(2)

\* C12: getTasksForDateRange(start, end) returns, from every task list whose
\* request succeeded, exactly the tasks that have no due value or whose due
\* lies in [start at 00:00:00.000, end at 23:59:59.999] inclusive, the days
\* being taken in local time or in UTC.
C12_RangeIsStartToEndOfDay ==
    (tKind = "getTasksForDateRange" /\ TasksSettled) =>
        /\ ~tResult.null
        /\ \/ tResult.items = TasksWithin(StartOfDay(tStart, tZone), EndOfDay(tEnd, tZone))
           \/ tResult.items = TasksWithin(StartOfDay(tStart, 0), EndOfDay(tEnd, 0))

\* C17: when the request for one task list fails while the request for the
\* task lists succeeded, getTasksForDate and getTasksForDateRange still
\* resolve with a task list: the filtered tasks of the lists whose request
\* succeeded, list after list, and no task of a list whose request failed.
C17_FailedListContributesNothing ==
    TasksSettled =>
        /\ ~tResult.null
        /\ tResult.items = TasksWithin(LowerBound(tKind, tStart, tEnd, tZone),
                                       UpperBound(tEnd, tZone))
        /\ \A i \in 1..2 : tSlots[i].st = "failed" =>
              \A k \in 1..Len(tResult.items) :
                  \A j \in 1..Len(tLists[i].tasks) :
                      tResult.items[k].id # tLists[i].tasks[j].id

C17_Witness ==
    /\ tKind = "getTasksForDate"
    /\ tPc = "done"
    /\ tSlots[1].st = "failed"
    /\ tSlots[2].st = "ok"
    /\ tLists[1].tasks[1].due = NoDue
    /\ tLists[2].tasks[1].due = NoDue
    /\ ~tResult.null
    /\ tResult.items = tLists[2].tasks

\* what getTasksForDateRange(d, d) keeps of the lists whose request succeeded
RangeOfOneDay ==
    TasksWithin(LowerBound("getTasksForDateRange", tEnd, tEnd, tZone),
                UpperBound(tEnd, tZone))

C28_GetTasksMergesAllLists ==
    (tKind = "getTasks" /\ tPc = "done" /\ ~tResult.null) =>
        tResult.items = tLists[1].tasks \o tLists[2].tasks

(***************************************************************************)
(* Claims about BaseService                                                *)
(***************************************************************************)
\* initialize() call i is made in this step
InitializeBegins(i) == sCalls[i] = NotCalled /\ sCalls'[i] # NotCalled

\* initialize() call i returns in this step
InitializeResolves(i) == sCalls[i].pc # "resolved" /\ sCalls'[i].pc = "resolved"

\* onInitialize of call i has thrown and the call ends in this step
OnInitializeThrows(i) == sCalls[i].pc = "awaiting" /\ sCalls'[i].pc = "rejected"

C18_State ==
    /\ ~(sReady /\ sInitializing)
    /\ Cardinality({i \in 1..MaxInitCalls : sCalls[i].pc = "awaiting"}) <= 1
    /\ sInitializing <=> \E i \in 1..MaxInitCalls : sCalls[i].pc = "awaiting"

C18_Step ==
    /\ sRuns' # sRuns => ~sReady /\ ~sInitializing /\ sRuns' = sRuns + 1
    /\ \A i \in 1..MaxInitCalls :
        /\ InitializeBegins(i) =>
              /\ sReady => sCalls'[i].pc = "resolved" /\ sRuns' = sRuns
              /\ sInitializing => sCalls'[i].pc = "waiting" /\ sRuns' = sRuns
              /\ (~sReady /\ ~sInitializing) =>
                    sCalls'[i].pc = "awaiting" /\ sRuns' = sRuns + 1
        /\ InitializeResolves(i) => sReady'
        /\ OnInitializeThrows(i) =>
              /\ ~sApi
              /\ sCalls'[i].error = OnInitializeError
              /\ ~sReady'
              /\ ~sInitializing'

\* C18: initialize() is idempotent.  _isReady and _isInitializing are never
\* both true and at most one onInitialize is in progress; onInitialize runs
\* only in an initialize() called while the service is neither ready nor
\* initializing, and such a call always runs it; a call made while the
\* service is ready returns at once; isReady() is true when a call returns;
\* when onInitialize throws, the call rejects with its error and leaves
\* _isReady and _isInitializing false.
C18_InitializeIsIdempotent == []C18_State /\ [][C18_Step]_vars

C18_Witness ==
    /\ sApi
    /\ sRuns = 1
    /\ sReady
    /\ sCalls[1].pc = "resolved" /\ sCalls[1].ran
    /\ sCalls[2].pc = "resolved" /\ sCalls[2].elapsed > 0
    /\ sCalls[3] = ReturnedAtOnce

\* the failing path of C18: onInitialize has thrown in one call and has run
\* again in the next
C18_RunsAgainAfterFailure ==
    /\ ~sApi
    /\ sCalls[1].pc = "rejected" /\ sCalls[1].error = OnInitializeError
    /\ sCalls[2].pc = "rejected" /\ sCalls[2].ran
    /\ sRuns = 2
    /\ ~sReady /\ ~sInitializing

(***************************************************************************)
(* Claims about GoogleCalendarProvider                                     *)
(***************************************************************************)
PMutation == pOp.kind \in EventMutations \cup TaskMutations

\* the last invocation of fn failed and withRetry has handled the failure
PFailureHandled == PMutation /\ pOp.raised # NoPError /\ pOp.pc \in {"sleeping", "rejected"}

\* C11 (as the spec states it): a provider call that fails with HTTP status
\* 429 is converted to RateLimitError and is retryable, so the operation is
\* rejected with it only when the MAX_RETRIES retries are used up; before
\* that, withRetry sleeps the exponential backoff and calls again.
C11_RateLimitIsRetried ==
    (PFailureHandled /\ pOp.raised.status = 429) =>
        /\ ConvertError(pOp.raised).class = "RateLimitError"
        /\ pOp.pc = "rejected" =>
              /\ pOp.attempt = MAX_RETRIES
              /\ pOp.thrown.class = "RateLimitError"
        /\ pOp.pc = "sleeping" =>
              pOp.sleeps[Len(pOp.sleeps)] = Backoff(pOp.attempt)

PCreate == pOp.kind \in {"createEvent", "createTask"}

\* C15: createEvent / createTask with data that validateEventData /
\* validateTaskData rejects throws that ValidationError with no invocation of
\* fn by withRetry, no request sent and no backoff, and the event and task
\* caches are what they were when the operation was called.
C15_InvalidDataNeverReachesApi ==
    (PCreate /\ pOp.checked # Valid) =>
        /\ pOp.pc = "rejected"
        /\ pOp.thrown = PError("ValidationError", 0, pOp.checked)
        /\ pOp.calls = 0
        /\ pOp.requests = 0
        /\ pOp.sleeps = <<>>
        /\ pEventCache = pOp.eventsAtCall
        /\ pTaskCache = pOp.tasksAtCall

C15_Witness ==
    /\ pOp.kind = "createTask"
    /\ pOp.checked = "Task title is required"
    /\ pOp.pc = "rejected"
    /\ pOp.eventsAtCall # {}
    /\ pOp.tasksAtCall # {}
    /\ pCred.accessToken # 0

\* completeTask is called on the provider, on the tasks facade
PCompleteCalled == pCalled' = pCalled + 1 /\ pOp'.kind = "completeTask"

FCompleteCalled(p) ==
    /\ fOps[p].pc # "inflight"
    /\ fOps'[p].pc = "inflight"
    /\ fOps'[p].name = "completeTask"

\* its withRetry resolves
PCompleteSucceeds ==
    /\ pOp.kind = "completeTask"
    /\ pOp.pc \in {"requested", "resent"}
    /\ pCalled' = pCalled
    /\ pOp'.pc = "resolved"

FCompleteSucceeds(p) ==
    /\ fOps[p].name = "completeTask"
    /\ fOps[p].pc = "inflight"
    /\ fOps'[p].pc = "done"
    /\ fOps'[p].result = "value"

\* the update a completeTask has built and every request it has sent
C16_State ==
    /\ pOp.kind = "completeTask" =>
          /\ pOp.body = CompleteBody(pOp.called)
          /\ pOp.body.status = "completed"
          /\ pOp.body.completed.format = "YYYY-MM-DDTHH:mm:ss.sssZ"
          /\ pOp.requests > 0 =>
                /\ pOp.request.op = "updateTask"
                /\ pOp.request.id = pOp.id
                /\ pOp.request.body = pOp.body
    /\ \A p \in FacadeOpIds :
          fOps[p].name = "completeTask" =>
             /\ ApiOpOf(fOps[p].name) = "updateTask"
             /\ fOps[p].id \in FacadeTaskIds
             /\ fOps[p].body.status = "completed"
             /\ fOps[p].body.completed.format = "YYYY-MM-DDTHH:mm:ss.sssZ"
             /\ fOps[p].body.completed.instant <= fNow

\* C16: completeTask(id), on the provider and on the tasks facade, hands
\* updateTask the id and a body with status 'completed' and completed = the
\* ISO-8601 UTC string of the time of the call, whatever retries follow, and
\* the step in which it succeeds leaves the task cache of that layer empty.
C16_CompleteTaskUpdatesAndClears ==
    /\ []C16_State
    /\ [][/\ PCompleteCalled =>
                /\ pOp'.id \in TaskIds
                /\ pOp'.body = [status |-> "completed", completed |-> ToISOString(pNow)]
          /\ PCompleteSucceeds => pTaskCache' = {}
          /\ \A p \in FacadeOpIds :
                /\ FCompleteCalled(p) =>
                      fOps'[p].body = [status |-> "completed",
                                       completed |-> ToISOString(fNow)]
                /\ FCompleteSucceeds(p) => fCache' = {}]_vars

C16_Witness ==
    /\ pOp.kind = "completeTask"
    /\ pOp.pc = "resolved"
    /\ pOp.attempt = 1
    /\ pOp.requests = 2
    /\ pOp.tasksAtCall # {}
    /\ pNow > pOp.called
    /\ pOp.request.body.completed.instant = pOp.called
    /\ pTaskCache = {}

MissingToken ==
    {PlainError("No access token available"), PlainError("No refresh token available")}

\* C20 (as the spec states it): a provider mutation that fails for want of an
\* access token, or of a refresh token after a 401, is attempted exactly
\* once and rejects with that very error: no NetworkError, no backoff.
C20_MissingTokenAttemptedOnce ==
    (PFailureHandled /\ pOp.raised \in MissingToken) =>
        /\ pOp.pc = "rejected"
        /\ pOp.calls = 1
        /\ pOp.sleeps = <<>>
        /\ pOp.thrown = pOp.raised

\* the error fn threw last has a status of 500 or more, or none at all
ServerOrNetworkFailure(error) == error.status >= 500 \/ error.status = 0

\* the error fn threw last has a 4xx status other than 429
ClientFailure(error) == error.status >= 400 /\ error.status < 500 /\ error.status # 429

\* min(1000 * 2^attempt, 16000) for the attempts 0 .. n-1
CappedSleeps(n) == [i \in 1..n |-> Min(1000 * Pow(2, i - 1), 16000)]

\* C24: in the provider's withRetry a failure with a status of 500 or more,
\* or with no status, is followed by a sleep of min(1000 * 2^attempt, 16000)
\* ms and another attempt until the fourth attempt has failed, so that an
\* always-failing call of this kind is attempted exactly MAX_RETRIES + 1 = 4
\* times with the sleeps 1000, 2000, 4000; a failure with a 4xx status other
\* than 429 is thrown as it is, with no sleep and no further attempt, so that
\* a call failing this way at once is attempted exactly once.
C24_RetriedByStatus ==
    /\ pOp.pc = "sleeping" =>
          /\ ServerOrNetworkFailure(pOp.raised)
          /\ pOp.calls = pOp.attempt + 1
          /\ pOp.attempt < MAX_RETRIES
          /\ pOp.sleeps = CappedSleeps(pOp.calls)
    /\ (pOp.pc = "rejected" /\ pOp.calls > 0 /\ ServerOrNetworkFailure(pOp.raised)) =>
          /\ pOp.calls = 4
          /\ pOp.sleeps = <<1000, 2000, 4000>>
          /\ pOp.thrown.class \in {"GoogleCalendarError", "NetworkError"}
    /\ (pOp.pc = "rejected" /\ pOp.calls > 0 /\ ClientFailure(pOp.raised)) =>
          /\ pOp.thrown = pOp.raised
          /\ pOp.sleeps = CappedSleeps(pOp.calls - 1)
          /\ pOp.calls = 1 => pOp.sleeps = <<>>

\* an update that failed four times with a status of 500
C24_Witness ==
    /\ pOp.kind = "updateEvent"
    /\ pOp.pc = "rejected"
    /\ pOp.raised = ResponseError(500)
    /\ pOp.calls = 4
    /\ pOp.requests = 4
    /\ pOp.sleeps = <<1000, 2000, 4000>>

\* the other case of C24: an update that failed once with a status of 404
C24_NotFoundOnce ==
    /\ pOp.kind = "updateEvent"
    /\ pOp.pc = "rejected"
    /\ pOp.thrown = ResponseError(404)
    /\ pOp.calls = 1
    /\ pOp.sleeps = <<>>

(***************************************************************************)
(* Claims about a failed mutation, on a facade or on the provider          *)
(***************************************************************************)
\* a create, update, delete or complete is called on the facade in this step
FacadeMutationBegins(q) ==
    /\ fOps[q].pc # "inflight"
    /\ fOps'[q].pc = "inflight"
    /\ fOps'[q].type = "mutation"

\* the mutation q of the facade fails in this step
FacadeMutationFails(q) ==
    /\ fOps[q].type = "mutation"
    /\ fOps[q].pc = "inflight"
    /\ fOps'[q].pc = "done"
    /\ fOps'[q].result = "ServiceError"

\* a mutation of the provider fails in this step, at once or after its retries
ProviderMutationFails ==
    /\ pOp' # pOp
    /\ pOp'.kind \in EventMutations \cup TaskMutations
    /\ pOp'.pc = "rejected"

\* C35: a create, update, delete (or complete) of a facade or of the provider
\* that fails leaves the cache of its layer as it was before the call: the
\* facade's call and its failure change no entry (other operations of the
\* facade may run in between), and when a provider operation rejects both
\* provider caches are the ones it was called with.
C35_FailedMutationKeepsCache ==
    [][/\ \A q \in FacadeOpIds :
             (FacadeMutationBegins(q) \/ FacadeMutationFails(q)) => fCache' = fCache
       /\ ProviderMutationFails =>
             /\ pEventCache' = pEventCache /\ pEventCache' = pOp'.eventsAtCall
             /\ pTaskCache' = pTaskCache /\ pTaskCache' = pOp'.tasksAtCall]_vars

\* a mutation of the facade has failed while the cache holds an entry
C35_Witness ==
    /\ fCache # {}
    /\ \E q \in FacadeOpIds :
          /\ fOps[q].type = "mutation"
          /\ fOps[q].result = "ServiceError"

\* a mutation of the provider has failed after a retry while a cache holds
\* an entry
C35_ProviderFailedWithCache ==
    /\ pOp.kind \in EventMutations \cup TaskMutations
    /\ pOp.pc = "rejected"
    /\ pOp.attempt > 0
    /\ pEventCache # {} \/ pTaskCache # {}

(***************************************************************************)
(* Claims about the body of a task update                                  *)
(***************************************************************************)
\* C27: every task update body sent to the API by updateTask / completeTask
\* of the tasks facade and of the provider carries a completed timestamp if
\* and only if its status is 'completed'.
C27_CompletedIffStatusCompleted ==
    \A i \in 1..Len(uSent) :
        uSent[i].completed # NoTimestamp <=> uSent[i].status = "completed"

(***************************************************************************)
(* Claims about the auth slice                                             *)
(***************************************************************************)
\* the actions C29 says leave refreshToken alone
RefreshTokenFrame ==
    { "auth/tokenRefreshed", "auth/refreshAccessToken/pending",
      "auth/refreshAccessToken/fulfilled", "auth/refreshAccessToken/rejected",
      "auth/authFailed", "auth/authStarted", "auth/clearError" }

\* the step takes refreshToken from a token to null
RefreshTokenCleared == aAuth.refreshToken # Null /\ aAuth'.refreshToken = Null

\* C29: the token-refresh actions, authFailed, authStarted and clearError
\* never change refreshToken; a rejected refresh also leaves accessToken and
\* isAuthenticated unchanged; refreshToken is set to null only by loggedOut or
\* logout.fulfilled.
C29_RefreshTokenClearedOnlyByLogout ==
    [][/\ aLast' \in RefreshTokenFrame => aAuth'.refreshToken = aAuth.refreshToken
       /\ aLast' = "auth/refreshAccessToken/rejected" =>
             /\ aAuth'.accessToken = aAuth.accessToken
             /\ aAuth'.isAuthenticated = aAuth.isAuthenticated
       /\ RefreshTokenCleared =>
             aLast' \in {"auth/loggedOut", "auth/logout/fulfilled"}]_vars

\* what does hold: the frame of the refresh actions, and no action but a
\* logout or a fulfilled startAuthFlow clears refreshToken
C29_FrameOfRefreshActions ==
    [][/\ aLast' \in RefreshTokenFrame => aAuth'.refreshToken = aAuth.refreshToken
       /\ aLast' = "auth/refreshAccessToken/rejected" =>
             /\ aAuth'.accessToken = aAuth.accessToken
             /\ aAuth'.isAuthenticated = aAuth.isAuthenticated
       /\ RefreshTokenCleared =>
             aLast' \in {"auth/loggedOut", "auth/logout/fulfilled",
                         "auth/startAuthFlow/fulfilled"}]_vars

\* a refresh was rejected on an authenticated state and the tokens are there
C29_RejectedRefreshKeepsTokens ==
    /\ aLast = "auth/refreshAccessToken/rejected"
    /\ aAuth.isAuthenticated
    /\ aAuth.accessToken = "a1"
    /\ aAuth.refreshToken = "r1"
    /\ aAuth.error = "Request failed"

(***************************************************************************)
(* Claims about the calendar slice and the tasks slice                     *)
(***************************************************************************)
\* the ids of the id list
ListedIds(state) == {state.ids[i] : i \in 1..Len(state.ids)}

NoRepeats(seq) == \A i, j \in 1..Len(seq) : seq[i] = seq[j] => i = j

\* C30: in the calendar and tasks slices, in every reachable state the id
\* list has no duplicates and is exactly the set of keys of the entity map,
\* and selectAll yields no undefined and no repeated entity.
C30_IdListIsTheKeys ==
    /\ NoRepeats(nState.ids)
    /\ ListedIds(nState) = DOMAIN nState.entities
    /\ NoRepeats(SelectAll(nState))
    /\ \A i \in 1..Len(nState.ids) : SelectAll(nState)[i] # NoEntity

\* what does hold: every listed id is a key of the map
C30_ListedIdsAreKeys == ListedIds(nState) \subseteq DOMAIN nState.entities

\* the parts of C30 that fail, one by one
C30_NoRepeatedId == NoRepeats(nState.ids)

C30_EveryKeyIsListed == DOMAIN nState.entities \subseteq ListedIds(nState)

(***************************************************************************)
(* Claims about ServiceContainer                                           *)
(***************************************************************************)
\* the calls of get(name) that invoked the factory
MadeBy(name) == {g \in GetIds : kGets[g].name = name /\ kGets[g].made}

\* the calls of get(name) that have resolved
ResolvedGets(name) == {g \in GetIds : kGets[g].name = name /\ kGets[g].pc = "resolved"}

\* C36: for a name that has not been disposed or cleared, the factory is
\* invoked at most once and every get(name) that resolves, overlapping calls
\* included, resolves to the same service object.
C36_OneInstancePerName ==
    \A name \in ServiceNames \ kReset :
        /\ Cardinality(MadeBy(name)) <= 1
        /\ \A g, h \in ResolvedGets(name) : kGets[g].instance = kGets[h].instance

\* two calls of get(name) have resolved to different objects of the factory
\* though no initialize() failed and nothing was disposed or cleared
C36_TwoInstances ==
    /\ kReset = {}
    /\ \A g \in GetIds : kGets[g].pc # "rejected"
    /\ \E g, h \in ResolvedGets("calendar") :
          /\ kGets[g].instance > 0 /\ kGets[h].instance > 0
          /\ kGets[g].instance # kGets[h].instance

(***************************************************************************)
(* Claims about the thunks of the slices                                   *)
(***************************************************************************)
\* C37: in the calendar, tasks and auth slices loading is true whenever a
\* dispatched thunk is still pending (the completion of one thunk does not
\* set loading to false while another one is pending).
C37_LoadingWhilePending == PendingThunks # {} => hState.loading

\* what does hold: loading is false once every dispatched thunk has settled
C37_NotLoadingWhenAllSettled ==
    (hDispatched > 0 /\ PendingThunks = {}) => ~hState.loading

(***************************************************************************)
(* Specifications                                                          *)
(***************************************************************************)
\* the state of a component that a specification leaves alone
RetryIdle ==
    /\ rGiven = {}
    /\ rConfig = DEFAULT_RETRY_CONFIG
    /\ rPc = "running"
    /\ rAttempt = 0
    /\ rLastError = NoError
    /\ rFnLog = <<>>
    /\ rSleeps = <<>>
    /\ rThrown = NoError

ApiIdle ==
    /\ credentials = [clientId |-> "", clientSecret |-> "",
                      accessToken |-> 0, refreshToken |-> 0]
    /\ settings = [googleAccessToken |-> 0, googleRefreshToken |-> 0]
    /\ calls = [p \in ApiCallIds |-> IdleCall]
    /\ tokenPosts = <<>>
    /\ tokensUpdated = <<>>

OAuthIdle ==
    /\ oServer = 0
    /\ oPort = 0
    /\ oFlows = [f \in FlowIds |-> NoFlow]
    /\ oUncaught = 0

FacadeIdle ==
    /\ fKind = "events"
    /\ fReady = FALSE
    /\ fNow = 0
    /\ fTicks = 0
    /\ fCache = {}
    /\ fServer = 0
    /\ fOps = [p \in FacadeOpIds |-> IdleOp]
    /\ fStarted = 0
    /\ fFirst = [k \in AllKeys |-> NoFirst]
    /\ fCleared = {}

CallIdle ==
    /\ cFacade = "events"
    /\ cOperation = ""
    /\ cResult = Pending

ProviderIdle ==
    /\ pCred = [configured |-> FALSE, accessToken |-> 0, refreshToken |-> 0]
    /\ pNow = 0
    /\ pTicks = 0
    /\ pEventCache = {}
    /\ pTaskCache = {}
    /\ pOp = IdlePOp
    /\ pCalled = 0

TasksIdle ==
    /\ tZone = 0
    /\ tKind = ""
    /\ tStart = 0
    /\ tEnd = 0
    /\ tLists = <<>>
    /\ tPc = "idle"
    /\ tSlots = <<>>
    /\ tResult = NullResult

ServiceIdle ==
    /\ sApi = FALSE
    /\ sReady = FALSE
    /\ sInitializing = FALSE
    /\ sRuns = 0
    /\ sCalls = <<>>
    /\ sDisposals = [called |-> 0, awaiting |-> 0]

BodyIdle ==
    /\ uLayer = ""
    /\ uOperation = ""
    /\ uUpdates = NoUpdates
    /\ uNow = 0
    /\ uSent = <<>>

AuthIdle ==
    /\ aAuth = InitialAuthState
    /\ aLast = ""

SliceIdle ==
    /\ nSlice = ""
    /\ nState = InitialSliceState

ContainerIdle ==
    /\ kFactories = {}
    /\ kServices = [n \in ServiceNames |-> 0]
    /\ kCreated = 0
    /\ kGets = [g \in GetIds |-> IdleGet]
    /\ kReset = {}
    /\ kDisposing = {}

ThunkIdle ==
    /\ hSlice = ""
    /\ hState = InitialSliceState
    /\ hPending = <<>>
    /\ hDispatched = 0

InitRetry == layer = "retry" /\ RetryInit /\ ApiIdle /\ FacadeIdle /\ OAuthIdle /\ ProviderIdle /\ CallIdle /\ TasksIdle /\ ServiceIdle /\ BodyIdle /\ AuthIdle /\ SliceIdle /\ ContainerIdle /\ ThunkIdle

SpecRetry == InitRetry /\ [][NextRetry]_vars

\* withRetry with an fn whose promise settles and timers that fire
SpecRetryLive == InitRetry /\ [][NextRetry]_vars /\ WF_vars(NextRetry)

InitApi == layer = "api" /\ ApiInit /\ RetryIdle /\ FacadeIdle /\ OAuthIdle /\ ProviderIdle /\ CallIdle /\ TasksIdle /\ ServiceIdle /\ BodyIdle /\ AuthIdle /\ SliceIdle /\ ContainerIdle /\ ThunkIdle

SpecApi == InitApi /\ [][NextApi]_vars

InitFacade == layer = "facade" /\ FacadeInit /\ RetryIdle /\ ApiIdle /\ OAuthIdle /\ ProviderIdle /\ CallIdle /\ TasksIdle /\ ServiceIdle /\ BodyIdle /\ AuthIdle /\ SliceIdle /\ ContainerIdle /\ ThunkIdle

SpecFacade == InitFacade /\ [][NextFacade]_vars

InitOAuth == layer = "oauth" /\ OAuthInit /\ RetryIdle /\ ApiIdle /\ FacadeIdle /\ ProviderIdle /\ CallIdle /\ TasksIdle /\ ServiceIdle /\ BodyIdle /\ AuthIdle /\ SliceIdle /\ ContainerIdle /\ ThunkIdle

SpecOAuth == InitOAuth /\ [][NextOAuth]_vars

\* the same with every event that can happen happening at last
SpecOAuthLive == InitOAuth /\ [][NextOAuth]_vars /\ WF_vars(NextOAuth)

InitProvider == layer = "provider" /\ ProviderInit /\ RetryIdle /\ ApiIdle /\ FacadeIdle /\ OAuthIdle /\ CallIdle /\ TasksIdle /\ ServiceIdle /\ BodyIdle /\ AuthIdle /\ SliceIdle /\ ContainerIdle /\ ThunkIdle

SpecProvider == InitProvider /\ [][NextProvider]_vars

InitFacadeCall ==
    layer = "call" /\ RetryInit /\ CallInit /\ ApiIdle /\ FacadeIdle /\ OAuthIdle /\ ProviderIdle /\ TasksIdle /\ ServiceIdle /\ BodyIdle /\ AuthIdle /\ SliceIdle /\ ContainerIdle /\ ThunkIdle

SpecFacadeCall == InitFacadeCall /\ [][NextFacadeCall]_vars

InitTasks ==
    layer = "tasks" /\ TasksInit /\ RetryIdle /\ ApiIdle /\ FacadeIdle /\ OAuthIdle /\ ProviderIdle /\ CallIdle /\ ServiceIdle /\ BodyIdle /\ AuthIdle /\ SliceIdle /\ ContainerIdle /\ ThunkIdle

SpecTasks == InitTasks /\ [][NextTasks]_vars

InitService ==
    layer = "service" /\ ServiceInit /\ RetryIdle /\ ApiIdle /\ FacadeIdle /\ OAuthIdle /\ ProviderIdle /\ CallIdle /\ TasksIdle /\ BodyIdle /\ AuthIdle /\ SliceIdle /\ ContainerIdle /\ ThunkIdle

SpecService == InitService /\ [][NextService]_vars

InitBody ==
    layer = "body" /\ BodyInit /\ RetryIdle /\ ApiIdle /\ FacadeIdle /\ OAuthIdle /\ ProviderIdle /\ CallIdle /\ TasksIdle /\ ServiceIdle /\ AuthIdle /\ SliceIdle /\ ContainerIdle /\ ThunkIdle

SpecBody == InitBody /\ [][NextBody]_vars

InitAuth ==
    layer = "auth" /\ AuthInit /\ RetryIdle /\ ApiIdle /\ FacadeIdle /\ OAuthIdle /\ ProviderIdle /\ CallIdle /\ TasksIdle /\ ServiceIdle /\ BodyIdle /\ SliceIdle /\ ContainerIdle /\ ThunkIdle

SpecAuth == InitAuth /\ [][NextAuth]_vars

InitSlice ==
    layer = "slice" /\ SliceInit /\ RetryIdle /\ ApiIdle /\ FacadeIdle /\ OAuthIdle /\ ProviderIdle /\ CallIdle /\ TasksIdle /\ ServiceIdle /\ BodyIdle /\ AuthIdle /\ ContainerIdle /\ ThunkIdle

SpecSlice == InitSlice /\ [][NextSlice]_vars

InitContainer ==
    layer = "container" /\ ContainerInit /\ RetryIdle /\ ApiIdle /\ FacadeIdle /\ OAuthIdle /\ ProviderIdle /\ CallIdle /\ TasksIdle /\ ServiceIdle /\ BodyIdle /\ AuthIdle /\ SliceIdle /\ ThunkIdle

SpecContainer == InitContainer /\ [][NextContainer]_vars

InitThunks ==
    layer = "thunks" /\ ThunkInit /\ RetryIdle /\ ApiIdle /\ FacadeIdle /\ OAuthIdle /\ ProviderIdle /\ CallIdle /\ TasksIdle /\ ServiceIdle /\ BodyIdle /\ AuthIdle /\ SliceIdle /\ ContainerIdle

SpecThunks == InitThunks /\ [][NextThunks]_vars

\* the two layers that offer completeTask: a behaviour is one of the provider
\* or one of a facade
InitLayers == InitProvider \/ InitFacade

NextLayers ==
    \/ layer = "provider" /\ NextProvider
    \/ layer = "facade" /\ NextFacade

SpecLayers == InitLayers /\ [][NextLayers]_vars

(***************************************************************************)
(* Claims about withRetry                                                  *)
(***************************************************************************)
RetrySettled == rPc \in {"resolved", "rejected"}

FailedRetryably(i) == ~rFnLog[i].ok /\ IsRetryable(rConfig, rFnLog[i].msg)

FailedNonRetryably(i) == ~rFnLog[i].ok /\ ~IsRetryable(rConfig, rFnLog[i].msg)

AllCallsFailedRetryably == \A i \in 1..Len(rFnLog) : FailedRetryably(i)

\* C1: with maxRetries = n >= 0 and fn failing on every call with an error that
\* isRetryable accepts, fn is never invoked more than n+1 times, withRetry does
\* not settle before the (n+1)-th invocation, and it then rejects with the
\* error of that last invocation.
C1_AlwaysFailingInvokedNPlus1 ==
    (rConfig.maxRetries >= 0 /\ AllCallsFailedRetryably) =>
        /\ Len(rFnLog) <= rConfig.maxRetries + 1
        /\ RetrySettled =>
              /\ rPc = "rejected"
              /\ Len(rFnLog) = rConfig.maxRetries + 1
              /\ rThrown = [msg |-> rFnLog[Len(rFnLog)].msg, call |-> Len(rFnLog)]

C1_Witness ==
    /\ rConfig.maxRetries = 2
    /\ AllCallsFailedRetryably
    /\ rPc = "rejected"
    /\ Len(rFnLog) = 3
    /\ rThrown.call = 3

\* C2: an invocation of fn that fails with an error isRetryable refuses is the
\* last one: withRetry is rejected with that very error, fn is not invoked
\* again and no sleep is scheduled after it (one sleep per earlier failure
\* only); when it is the first invocation, fn has been invoked exactly once.
C2_NonRetryableRethrownAtOnce ==
    \A i \in 1..Len(rFnLog) :
        FailedNonRetryably(i) =>
            /\ i = Len(rFnLog)
            /\ rPc = "rejected"
            /\ rThrown = [msg |-> rFnLog[i].msg, call |-> i]
            /\ Len(rSleeps) = i - 1

C2_Witness ==
    /\ Len(rFnLog) = 2
    /\ FailedRetryably(1)
    /\ FailedNonRetryably(2)
    /\ rConfig.maxRetries > 1
    /\ rPc = "rejected"

\* C13: the k-th sleep of withRetry follows the failed attempt i = k - 1 and is
\* handed to setTimeout before attempt i + 1 starts; it is exactly
\* min(initialDelay * backoffMultiplier^i, maxDelay) without jitter, lies in
\* [0.5 * that, that] with jitter, and never exceeds maxDelay.
C13_SleepIsCappedBackoff ==
    /\ rAttempt <= Len(rSleeps)
    /\ Len(rSleeps) <= rAttempt + 1
    /\ rPc = "sleeping" <=> Len(rSleeps) = rAttempt + 1
    /\ \A k \in 1..Len(rSleeps) :
          LET grown == rConfig.initialDelay * Pow(rConfig.backoffMultiplier, k - 1)
              baseDelay == IF grown <= rConfig.maxDelay THEN grown ELSE rConfig.maxDelay
          IN  /\ ~rFnLog[k].ok
              /\ ~rConfig.useJitter => rSleeps[k] = baseDelay
              /\ rConfig.useJitter => 2 * rSleeps[k] >= baseDelay /\ rSleeps[k] <= baseDelay
              /\ rSleeps[k] <= rConfig.maxDelay

C13_Witness ==
    /\ rConfig.useJitter
    /\ rConfig.initialDelay * Pow(rConfig.backoffMultiplier, 2) > rConfig.maxDelay
    /\ Len(rSleeps) = 3
    /\ rSleeps[1] = rConfig.initialDelay \div 2
    /\ rSleeps[2] = rConfig.initialDelay * rConfig.backoffMultiplier
    /\ rSleeps[3] < rConfig.maxDelay
    /\ rPc = "resolved"

\* fn is invoked at most maxRetries + 1 times; an invocation that succeeds is
\* the last one, follows retryable failures only and resolves withRetry; and
\* withRetry does not give up while fn has failed retryably fewer than
\* maxRetries + 1 times
C26_State ==
    /\ Len(rFnLog) <= (IF rConfig.maxRetries >= 0 THEN rConfig.maxRetries + 1 ELSE 0)
    /\ \A k \in 1..Len(rFnLog) :
          rFnLog[k].ok =>
              /\ k = Len(rFnLog)
              /\ rPc = "resolved"
              /\ \A j \in 1..(k - 1) : FailedRetryably(j)
    /\ rPc = "resolved" => Len(rFnLog) >= 1 /\ rFnLog[Len(rFnLog)].ok
    /\ (AllCallsFailedRetryably /\ Len(rFnLog) < rConfig.maxRetries + 1) =>
          rPc # "rejected"

\* C26: withRetry always terminates: when every promise of fn settles it
\* settles, after at most maxRetries + 1 invocations of fn; when fn succeeds
\* on its k-th invocation after k-1 retryable failures (k <= maxRetries + 1),
\* withRetry resolves at that invocation and fn has been invoked exactly k
\* times.
C26_Terminates == <>RetrySettled /\ []C26_State

\* fn failed twice with a retryable error and succeeded the third time
C26_Witness ==
    /\ rPc = "resolved"
    /\ Len(rFnLog) = 3
    /\ FailedRetryably(1) /\ FailedRetryably(2)
    /\ rFnLog[3].ok
    /\ Len(rSleeps) = 2
    /\ rConfig.maxRetries = 2

(***************************************************************************)
(* Claims about one facade operation                                       *)
(***************************************************************************)
\* C14: when withRetry gives up (the retries are used up, or isRetryable
\* refuses the error), the facade operation throws a ServiceError whose
\* message is the 'Failed to ...' text of that operation, whose serviceName is
\* the facade's class name, and whose originalError is the error withRetry
\* threw, which is the error of the last invocation of the API call.
C14_FailureIsServiceError ==
    /\ cResult \notin {Pending, CallReturned} =>
          /\ rPc = "rejected"
          /\ cResult.name = "ServiceError"
          /\ cResult.message =
                "Failed to " \o
                (CASE cOperation \in {"fetchEvents", "fetchTasks"} -> "fetch"
                   [] cOperation \in {"createEvent", "createTask"} -> "create"
                   [] cOperation \in {"updateEvent", "updateTask"} -> "update"
                   [] OTHER -> "delete") \o " " \o
                (CASE cOperation = "fetchEvents" -> "events"
                   [] cOperation = "fetchTasks" -> "tasks"
                   [] cOperation \in {"createEvent", "updateEvent", "deleteEvent"} -> "event"
                   [] OTHER -> "task")
          /\ cResult.serviceName =
                (IF cFacade = "events" THEN "GoogleCalendarFacade" ELSE "GoogleTasksFacade")
          /\ cResult.originalError = rThrown
          /\ Len(rFnLog) > 0 =>
                /\ ~rFnLog[Len(rFnLog)].ok
                /\ cResult.originalError =
                      [msg |-> rFnLog[Len(rFnLog)].msg, call |-> Len(rFnLog)]
    /\ cResult = CallReturned => rPc = "resolved"

C14_Witness ==
    /\ cResult.name = "ServiceError"
    /\ cOperation = "createTask"
    /\ cResult.message = "Failed to create task"
    /\ Len(rFnLog) = 2
    /\ FailedRetryably(1)
    /\ FailedNonRetryably(2)
    /\ cResult.originalError.call = 2

====
